---- MODULE Spec2Model ----
(***************************************************************************)
(* Verification model of the PCX PC builder (src/app.py): the Catalog      *)
(* (category normalisation, indexes by category and by id), the            *)
(* BuildEngine (slot selection, power estimate, compatibility rules,       *)
(* assembly guide, bill of materials), the build_history table with its    *)
(* JSON payload, the price parser, Catalog.load_csv, the password reset    *)
(* by token, and the threads of PCXApp (sample catalog, file loads,        *)
(* scraper imports).                                                       *)
(*                                                                         *)
(* Python strings that the code inspects character by character            *)
(* (strip, lower, upper, substring tests) are sequences of one-character   *)
(* strings.  Numbers are kept in half units (h = 2 * value) so that a      *)
(* fractional value such as 65.5 is representable with integers.           *)
(***************************************************************************)
EXTENDS Integers, Sequences, FiniteSets, TLC

VARIABLES
    norm_arg,    \* the label handed to _normalize_category
    norm_res,    \* the values returned so far: by the call on the label, then
                 \* by the call on that result
    by_cat,      \* Catalog.by_cat : category -> sequence of Parts
    by_id,       \* Catalog.by_id  : id -> Part
    parts,       \* BuildEngine.parts : slot key -> Part
    last,        \* the most recent BuildEngine method call
    prev,        \* history: the BuildEngine call before the most recent one
    ret,         \* the value the most recent call returned
    build_history, \* the rows of table build_history, in order of insertion
    now,         \* the clock datetime.utcnow() reads, in half seconds
    app_user,     \* PCXApp.user_id : the user of the running session
    price_arg,   \* the text handed to _parse_price_brl
    price_res,   \* the outcomes of _parse_price_brl so far
    loader,      \* the thread running _load_sample_catalog: 0 before it
                 \* replaces the catalog, then the index of the next sample
    workers,     \* the pages the running scraper threads are fetching
    after_queue, \* the callbacks queued for the UI thread by self.after
    ran,         \* the most recent step of the application
    reset_tokens, \* the rows of table reset_tokens, in order of insertion
    password,    \* users.password_hash and salt: the password each user has
    reset_dialog \* LoginWindow.on_reset_email: where it waits or how it ended

vars == <<norm_arg, norm_res, by_cat, by_id, parts, last, prev, ret,
          build_history, now, app_user, price_arg, price_res,
          loader, workers, after_queue, ran,
          reset_tokens, password, reset_dialog>>

normVars == <<norm_arg, norm_res>>
catalogVars == <<by_cat, by_id>>
engineVars == <<parts, last, ret>>

historyVars == <<prev>>

storeVars == <<build_history, now, app_user>>

priceVars == <<price_arg, price_res>>

appVars == <<loader, workers, after_queue, ran>>

resetVars == <<reset_tokens, password, reset_dialog>>

-----------------------------------------------------------------------------
(* Bounds of the model. *)

MaxCatalog == 3

MaxSel == 3

MaxSlots == 2

MaxBuilds == 2

MaxText == 3

MaxWorkers == 1

MaxBatch == 2

\* Reset tokens issued.
MaxTokens == 2

-----------------------------------------------------------------------------
(* String literals of the source, as character sequences. *)

s_placa_mae == <<"p", "l", "a", "c", "a", "-", "m", "ã", "e">>

s_motherboard == <<"m", "o", "t", "h", "e", "r", "b", "o", "a", "r", "d">>

s_mainboard == <<"m", "a", "i", "n", "b", "o", "a", "r", "d">>

s_gpu == <<"g", "p", "u">>

s_placa_de_video == <<"p", "l", "a", "c", "a", " ", "d", "e", " ", "v", "í", "d", "e", "o">>

s_video_card == <<"v", "i", "d", "e", "o", " ", "c", "a", "r", "d">>

s_cpu == <<"c", "p", "u">>

s_processador == <<"p", "r", "o", "c", "e", "s", "s", "a", "d", "o", "r">>

s_ram == <<"r", "a", "m">>

s_memoria == <<"m", "e", "m", "ó", "r", "i", "a">>

s_fonte == <<"f", "o", "n", "t", "e">>

s_psu == <<"p", "s", "u">>

s_power_supply == <<"p", "o", "w", "e", "r", " ", "s", "u", "p", "p", "l", "y">>

s_gabinete == <<"g", "a", "b", "i", "n", "e", "t", "e">>

s_case == <<"c", "a", "s", "e">>

s_ssd == <<"s", "s", "d">>

s_armazenamento == <<"a", "r", "m", "a", "z", "e", "n", "a", "m", "e", "n", "t", "o">>

s_hdd == <<"h", "d", "d">>

s_storage == <<"s", "t", "o", "r", "a", "g", "e">>

s_cooler == <<"c", "o", "o", "l", "e", "r">>

s_aio == <<"a", "i", "o">>

s_resfriamento == <<"r", "e", "s", "f", "r", "i", "a", "m", "e", "n", "t", "o">>

s_processor == <<"p", "r", "o", "c", "e", "s", "s", "o", "r">>

s_memory == <<"m", "e", "m", "o", "r", "y">>

PlacaMae == <<"P", "l", "a", "c", "a", "-", "m", "ã", "e">>

GPU == <<"G", "P", "U">>

CPU == <<"C", "P", "U">>

RAM == <<"R", "A", "M">>

Fonte == <<"F", "o", "n", "t", "e">>

Gabinete == <<"G", "a", "b", "i", "n", "e", "t", "e">>

Armazenamento == <<"A", "r", "m", "a", "z", "e", "n", "a", "m", "e", "n", "t", "o">>

Cooler == <<"C", "o", "o", "l", "e", "r">>

Motherboard == <<"M", "o", "t", "h", "e", "r", "b", "o", "a", "r", "d">>

PlacaDeVideo == <<"P", "l", "a", "c", "a", " ", "d", "e", " ", "V", "í", "d", "e", "o">>

Processador == <<"P", "r", "o", "c", "e", "s", "s", "a", "d", "o", "r">>

Memoria == <<"M", "e", "m", "ó", "r", "i", "a">>

PSU == <<"P", "S", "U">>

PowerSupply == <<"P", "o", "w", "e", "r", " ", "S", "u", "p", "p", "l", "y">>

Case == <<"C", "a", "s", "e">>

AIO == <<"A", "I", "O">>

AirCooler == <<"A", "i", "r", " ", "C", "o", "o", "l", "e", "r">>

SSD == <<"S", "S", "D">>

HDD == <<"H", "D", "D">>

Storage == <<"S", "t", "o", "r", "a", "g", "e">>

Monitor == <<"M", "o", "n", "i", "t", "o", "r">>

Unknown == <<"U", "n", "k", "n", "o", "w", "n">>

-----------------------------------------------------------------------------
(* Python str operations used by the code. *)

NoValue == [t |-> "none"]

Whitespace == {" ", "\t", "\n"}

UpperLetters == <<"A", "B", "C", "D", "E", "F", "G", "H", "I", "J", "K", "L", "M",
                  "N", "O", "P", "Q", "R", "S", "T", "U", "V", "W", "X", "Y", "Z",
                  "Ã", "Í", "Ó">>

LowerLetters == <<"a", "b", "c", "d", "e", "f", "g", "h", "i", "j", "k", "l", "m",
                  "n", "o", "p", "q", "r", "s", "t", "u", "v", "w", "x", "y", "z",
                  "ã", "í", "ó">>

LowerChar(ch) ==
    IF \E i \in 1..Len(UpperLetters) : UpperLetters[i] = ch
    THEN LowerLetters[CHOOSE i \in 1..Len(UpperLetters) : UpperLetters[i] = ch]
    ELSE ch

UpperChar(ch) ==
    IF \E i \in 1..Len(LowerLetters) : LowerLetters[i] = ch
    THEN UpperLetters[CHOOSE i \in 1..Len(LowerLetters) : LowerLetters[i] = ch]
    ELSE ch

\* str.lower()
Lower(s) == [i \in 1..Len(s) |-> LowerChar(s[i])]

\* str.upper()
Upper(s) == [i \in 1..Len(s) |-> UpperChar(s[i])]

SetMin(S) == CHOOSE x \in S : \A y \in S : x <= y

SetMax(S) == CHOOSE x \in S : \A y \in S : x >= y

\* str.strip(): drops leading and trailing whitespace
Strip(s) ==
    LET keep == {i \in 1..Len(s) : s[i] \notin Whitespace}
    IN  IF keep = {} THEN <<>> ELSE SubSeq(s, SetMin(keep), SetMax(keep))

\* sub in s
Contains(sub, s) ==
    \E i \in 1..(Len(s) - Len(sub) + 1) : SubSeq(s, i, i + Len(sub) - 1) = sub

-----------------------------------------------------------------------------
(* Catalog._normalize_category *)

\* A variant in which the video-card test is a substring test on 'placa'
\* made before the motherboard test.
NormalizePlacaFirst(cat) ==
    LET cat_lower == Lower(Strip(cat))
    IN  IF Contains(<<"p", "l", "a", "c", "a">>, cat_lower) \/ cat_lower \in {s_gpu, s_video_card}
          THEN GPU
        ELSE IF Contains(s_placa_mae, cat_lower) \/ Contains(s_motherboard, cat_lower)
                \/ Contains(s_mainboard, cat_lower)
          THEN PlacaMae
        ELSE IF cat_lower \in {s_cpu, s_processador} THEN CPU
        ELSE IF cat_lower \in {s_ram, s_memoria} THEN RAM
        ELSE IF cat_lower \in {s_fonte, s_psu, s_power_supply} THEN Fonte
        ELSE IF cat_lower \in {s_gabinete, s_case} THEN Gabinete
        ELSE IF cat_lower \in {s_ssd, s_armazenamento, s_hdd, s_storage} THEN Armazenamento
        ELSE IF cat_lower \in {s_cooler, s_aio, s_resfriamento} THEN Cooler
        ELSE Strip(cat)

_normalize_category(cat) ==
    LET cat_lower == Lower(Strip(cat))
    IN  IF Contains(s_placa_mae, cat_lower) \/ Contains(s_motherboard, cat_lower)
           \/ Contains(s_mainboard, cat_lower)
          THEN PlacaMae
        ELSE IF cat_lower \in {s_gpu, s_placa_de_video, s_video_card} THEN GPU
        ELSE IF cat_lower \in {s_cpu, s_processador} THEN CPU
        ELSE IF cat_lower \in {s_ram, s_memoria} THEN RAM
        ELSE IF cat_lower \in {s_fonte, s_psu, s_power_supply} THEN Fonte
        ELSE IF cat_lower \in {s_gabinete, s_case} THEN Gabinete
        ELSE IF cat_lower \in {s_ssd, s_armazenamento, s_hdd, s_storage} THEN Armazenamento
        ELSE IF cat_lower \in {s_cooler, s_aio, s_resfriamento} THEN Cooler
        ELSE Strip(cat)

\* The names _normalize_category returns for the eight known categories.
CanonicalNames == {PlacaMae, GPU, CPU, RAM, Fonte, Gabinete, Armazenamento, Cooler}

\* The synonym table of the specification, each row with the canonical
\* name the code uses for it.
SynonymTable ==
    {<<s_motherboard, PlacaMae>>, <<s_mainboard, PlacaMae>>,
     <<s_gpu, GPU>>, <<s_video_card, GPU>>, <<s_placa_de_video, GPU>>,
     <<s_cpu, CPU>>, <<s_processor, CPU>>, <<s_processador, CPU>>,
     <<s_ram, RAM>>, <<s_memory, RAM>>, <<s_memoria, RAM>>,
     <<s_psu, Fonte>>, <<s_power_supply, Fonte>>, <<s_fonte, Fonte>>,
     <<s_case, Gabinete>>, <<s_gabinete, Gabinete>>,
     <<s_ssd, Armazenamento>>, <<s_hdd, Armazenamento>>, <<s_storage, Armazenamento>>,
     <<s_armazenamento, Armazenamento>>,
     <<s_cooler, Cooler>>, <<s_aio, Cooler>>, <<s_resfriamento, Cooler>>}

Capitalize(s) == IF s = <<>> THEN s ELSE <<UpperChar(s[1])>> \o Tail(s)

\* The spellings of a label: letter case and surrounding whitespace vary.
Variants(s) ==
    {pre \o body \o post :
        pre \in {<<>>, <<" ">>, <<"\t", " ">>},
        body \in {s, Upper(s), Capitalize(s)},
        post \in {<<>>, <<" ">>, <<" ", "\n">>}}

\* Labels the normalisation is applied to.
NormInputs ==
    UNION {Variants(row[1]) : row \in SynonymTable}
    \cup CanonicalNames
    \cup {Motherboard, PlacaDeVideo, Processador, Memoria, PSU, PowerSupply, Case,
          AIO, AirCooler, SSD, HDD, Storage, Monitor, Unknown, <<>>, <<" ">>,
          <<" ">> \o Monitor \o <<" ">>,
          <<"A", "S", "U", "S", " ">> \o Motherboard \o <<" ", "X">>,
          PlacaMae \o <<" ", "A", "T", "X">>,
          GPU \o <<" ", "N", "V">>}

NormInit ==
    /\ norm_arg \in NormInputs
    /\ norm_res = <<>>

\* First call: normalise the label.
Normalize ==
    /\ Len(norm_res) = 0
    /\ norm_res' = <<_normalize_category(norm_arg)>>
    /\ UNCHANGED norm_arg

\* Second call: normalise the result of the first call.
NormalizeAgain ==
    /\ Len(norm_res) = 1
    /\ norm_res' = Append(norm_res, _normalize_category(norm_res[1]))
    /\ UNCHANGED norm_arg

-----------------------------------------------------------------------------
(* Parts and the Catalog. *)

\* The empty dict {}
EmptyMap == [k \in {} |-> NoValue]

\* dataclass Part
Part(id, category, name, price, attributes) ==
    [id |-> id, category |-> category, name |-> name, price |-> price,
     attributes |-> attributes]

Range(f) == {f[x] : x \in DOMAIN f}

\* Parts handed to Catalog.add_part: ids collide, labels need normalising.
CatalogPool ==
    {Part(id, category, name, 0, EmptyMap) :
        id \in {"a", "b"},
        category \in {s_gpu, <<" ">> \o GPU, s_cpu, Monitor},
        name \in {"x", "y"}}

\* Number of entries listed in by_cat.
CatalogSize ==
    LET RECURSIVE Sum(_)
        Sum(S) == IF S = {} THEN 0
                  ELSE LET c == CHOOSE x \in S : TRUE
                       IN  Len(by_cat[c]) + Sum(S \ {c})
    IN  Sum(DOMAIN by_cat)

CatalogInit ==
    /\ by_cat = EmptyMap
    /\ by_id = EmptyMap

\* Catalog.add_part
add_part(p) ==
    LET norm_cat == _normalize_category(p.category)
        np == [p EXCEPT !.category = norm_cat]
    IN  /\ by_cat' = [c \in DOMAIN by_cat \cup {norm_cat} |->
                         IF c = norm_cat
                         THEN (IF c \in DOMAIN by_cat THEN by_cat[c] ELSE <<>>) \o <<np>>
                         ELSE by_cat[c]]
        /\ by_id' = [i \in DOMAIN by_id \cup {p.id} |-> IF i = p.id THEN np ELSE by_id[i]]

AddPart ==
    /\ CatalogSize < MaxCatalog
    /\ \E p \in CatalogPool : add_part(p)

-----------------------------------------------------------------------------
(* Attribute values: numbers, booleans, strings; None for a missing key. *)

\* A number, kept in half units: Num(131) is 65.5
Num(h) == [t |-> "num", h |-> h]

Bool(b) == [t |-> "bool", b |-> b]

Str(s) == [t |-> "str", s |-> s]

\* dict.get(key): None when the key is absent
Get(attributes, key) ==
    IF key \in DOMAIN attributes THEN attributes[key] ELSE NoValue

\* Python truth value
Truthy(v) ==
    CASE v.t = "none" -> FALSE
      [] v.t = "num"  -> v.h # 0
      [] v.t = "bool" -> v.b
      [] v.t = "str"  -> Len(v.s) > 0

\* a or b
PyOr(a, b) == IF Truthy(a) THEN a ELSE b

\* a != b on Python values (True == 1, False == 0)
PyNotEqual(a, b) ==
    LET numeric(v) == v.t \in {"num", "bool"}
        asHalves(v) == IF v.t = "num" THEN v.h ELSE IF v.b THEN 2 ELSE 0
    IN  IF numeric(a) /\ numeric(b) THEN asHalves(a) # asHalves(b)
        ELSE a # b

Digits == <<"0", "1", "2", "3", "4", "5", "6", "7", "8", "9">>

IsDigits(s) ==
    /\ Len(s) > 0
    /\ \A i \in 1..Len(s) : \E d \in 1..10 : Digits[d] = s[i]

DigitValue(ch) == (CHOOSE d \in 1..10 : Digits[d] = ch) - 1

RECURSIVE DecimalValue(_)
DecimalValue(s) ==
    IF s = <<>> THEN 0
    ELSE 10 * DecimalValue(SubSeq(s, 1, Len(s) - 1)) + DigitValue(s[Len(s)])

Failed == [ok |-> FALSE, h |-> 0]

\* float(v), result in half units.  Text is accepted when, stripped, it is
\* a run of digits, optionally followed by ".0" or ".5"; the model uses no
\* other numeric spelling.  float(None) is a TypeError.
ToFloat(v) ==
    CASE v.t = "num"  -> [ok |-> TRUE, h |-> v.h]
      [] v.t = "bool" -> [ok |-> TRUE, h |-> IF v.b THEN 2 ELSE 0]
      [] v.t = "none" -> Failed
      [] v.t = "str"  ->
           LET st == Strip(v.s)
               n == Len(st)
           IN  IF IsDigits(st) THEN [ok |-> TRUE, h |-> 2 * DecimalValue(st)]
               ELSE IF n >= 3 /\ IsDigits(SubSeq(st, 1, n - 2)) /\ st[n - 1] = "."
                       /\ st[n] \in {"0", "5"}
                 THEN [ok |-> TRUE,
                       h |-> 2 * DecimalValue(SubSeq(st, 1, n - 2))
                             + (IF st[n] = "5" THEN 1 ELSE 0)]
               ELSE Failed

\* int(v), result in whole units: a number is truncated toward zero, text
\* must be a run of digits.
ToInt(v) ==
    CASE v.t = "num"  -> [ok |-> TRUE,
                          h |-> IF v.h >= 0 THEN v.h \div 2 ELSE -((-v.h) \div 2)]
      [] v.t = "bool" -> [ok |-> TRUE, h |-> IF v.b THEN 1 ELSE 0]
      [] v.t = "none" -> Failed
      [] v.t = "str"  ->
           LET st == Strip(v.s)
           IN  IF IsDigits(st) THEN [ok |-> TRUE, h |-> DecimalValue(st)] ELSE Failed

\* math.ceil(n / d) for d > 0
CeilDiv(n, d) == -((-n) \div d)

\* int(x) of x = h / 2
TruncHalves(h) == IF h >= 0 THEN h \div 2 ELSE -((-h) \div 2)

-----------------------------------------------------------------------------
(* BuildEngine *)

\* A variant of the alias table that leaves the label 'PSU' as it is.
CatMapPsuUnfolded ==
    (PlacaMae :> PlacaMae) @@ (Motherboard :> PlacaMae)
    @@ (GPU :> GPU) @@ (PlacaDeVideo :> GPU)
    @@ (CPU :> CPU) @@ (Processador :> CPU)
    @@ (RAM :> RAM) @@ (Memoria :> RAM)
    @@ (Fonte :> Fonte) @@ (PSU :> PSU) @@ (PowerSupply :> Fonte)
    @@ (Gabinete :> Gabinete) @@ (Case :> Gabinete)
    @@ (Cooler :> Cooler) @@ (AIO :> Cooler) @@ (AirCooler :> Cooler)
    @@ (SSD :> Armazenamento) @@ (HDD :> Armazenamento)
    @@ (Armazenamento :> Armazenamento)

\* BuildEngine.cat_map
cat_map ==
    (PlacaMae :> PlacaMae) @@ (Motherboard :> PlacaMae)
    @@ (GPU :> GPU) @@ (PlacaDeVideo :> GPU)
    @@ (CPU :> CPU) @@ (Processador :> CPU)
    @@ (RAM :> RAM) @@ (Memoria :> RAM)
    @@ (Fonte :> Fonte) @@ (PSU :> Fonte) @@ (PowerSupply :> Fonte)
    @@ (Gabinete :> Gabinete) @@ (Case :> Gabinete)
    @@ (Cooler :> Cooler) @@ (AIO :> Cooler) @@ (AirCooler :> Cooler)
    @@ (SSD :> Armazenamento) @@ (HDD :> Armazenamento)
    @@ (Armazenamento :> Armazenamento)

\* self.cat_map.get(category, category)
SlotOf(category) ==
    IF category \in DOMAIN cat_map THEN cat_map[category] ELSE category

Occupied(sel, key) == key \in DOMAIN sel

\* A variant that files the part under its own category label.
AddUnmapped(p) ==
    /\ parts' = [k \in DOMAIN parts \cup {p.category} |->
                    IF k = p.category THEN p ELSE parts[k]]
    /\ last' = [op |-> "add", arg |-> p]
    /\ ret' = NoValue

\* BuildEngine.add
add(p) ==
    LET cat == SlotOf(p.category)
    IN  /\ parts' = [k \in DOMAIN parts \cup {cat} |-> IF k = cat THEN p ELSE parts[k]]
        /\ last' = [op |-> "add", arg |-> p]
        /\ ret' = NoValue

\* A variant that resolves the argument through cat_map first.
RemoveMapped(category) ==
    /\ parts' = IF SlotOf(category) \in DOMAIN parts
                THEN [k \in DOMAIN parts \ {SlotOf(category)} |-> parts[k]]
                ELSE parts
    /\ last' = [op |-> "remove", arg |-> category]
    /\ ret' = NoValue

\* BuildEngine.remove
remove(category) ==
    /\ parts' = IF category \in DOMAIN parts
                THEN [k \in DOMAIN parts \ {category} |-> parts[k]]
                ELSE parts
    /\ last' = [op |-> "remove", arg |-> category]
    /\ ret' = NoValue

\* tdp = p.attributes.get('tdp_w') or p.attributes.get('tdp') or 0
TdpProbe(p) ==
    PyOr(PyOr(Get(p.attributes, "tdp_w"), Get(p.attributes, "tdp")), Num(0))

\* try: total += float(tdp)  except: pass
TdpHalves(p) ==
    LET f == ToFloat(TdpProbe(p))
    IN  IF f.ok THEN f.h ELSE 0

RECURSIVE SumTdp(_, _)
SumTdp(sel, keys) ==
    IF keys = {} THEN 0
    ELSE LET k == CHOOSE x \in keys : TRUE
         IN  TdpHalves(sel[k]) + SumTdp(sel, keys \ {k})

\* The fixed overhead added to the parts' draw, in watts.
baseline == 50

\* A variant that derives the recommendation from the truncated total.
EstimatedPowerFromInt(sel) ==
    LET total == SumTdp(sel, DOMAIN sel) + 2 * baseline
        rec == CeilDiv(13 * TruncHalves(total), 10)
    IN  <<TruncHalves(total), rec>>

\* BuildEngine.estimated_power: the pair (int(total), rec)
estimated_power(sel) ==
    LET total == SumTdp(sel, DOMAIN sel) + 2 * baseline
        rec == CeilDiv(13 * total, 20)
    IN  <<TruncHalves(total), rec>>

\* One entry of the issue list: the rule that produced it and the values
\* its text is formatted from.
Issue(rule, a, b) == [rule |-> rule, a |-> a, b |-> b]

Returned(issues) == [raised |-> FALSE, issues |-> issues]

Raised == [raised |-> TRUE, issues |-> <<>>]

\* A variant of the socket test that reads the key 'socket' only.
SocketRuleOneKey(sel) ==
    IF Occupied(sel, CPU) /\ Occupied(sel, PlacaMae)
    THEN LET cpu == sel[CPU]
             mb == sel[PlacaMae]
             cpu_sock == Get(cpu.attributes, "socket")
             mb_sock == Get(mb.attributes, "socket")
             reqb == PyOr(Get(cpu.attributes, "required_bios"),
                          Get(cpu.attributes, "bios_note"))
         IN  Returned(
               (IF Truthy(cpu_sock) /\ Truthy(mb_sock) /\ PyNotEqual(cpu_sock, mb_sock)
                THEN <<Issue("socket", cpu_sock, mb_sock)>> ELSE <<>>)
               \o (IF Truthy(reqb) THEN <<Issue("bios", reqb, NoValue)>> ELSE <<>>))
    ELSE Returned(<<>>)

\* if cpu and mb: socket comparison, then the BIOS note
SocketRule(sel) ==
    IF Occupied(sel, CPU) /\ Occupied(sel, PlacaMae)
    THEN LET cpu == sel[CPU]
             mb == sel[PlacaMae]
             cpu_sock == PyOr(Get(cpu.attributes, "soquete"), Get(cpu.attributes, "socket"))
             mb_sock == PyOr(Get(mb.attributes, "soquete"), Get(mb.attributes, "socket"))
             reqb == PyOr(Get(cpu.attributes, "required_bios"),
                          Get(cpu.attributes, "bios_note"))
         IN  Returned(
               (IF Truthy(cpu_sock) /\ Truthy(mb_sock) /\ PyNotEqual(cpu_sock, mb_sock)
                THEN <<Issue("socket", cpu_sock, mb_sock)>> ELSE <<>>)
               \o (IF Truthy(reqb) THEN <<Issue("bios", reqb, NoValue)>> ELSE <<>>))
    ELSE Returned(<<>>)

\* if ram and mb: memory types compared through str.upper(); a value that
\* is not a string has no upper() and the call raises AttributeError
MemoryRule(sel) ==
    IF Occupied(sel, RAM) /\ Occupied(sel, PlacaMae)
    THEN LET ram == sel[RAM]
             mb == sel[PlacaMae]
             ram_t == PyOr(PyOr(Get(ram.attributes, "tipo"), Get(ram.attributes, "mem_type")),
                           Get(ram.attributes, "type"))
             mb_t == PyOr(Get(mb.attributes, "mem_type"), Get(mb.attributes, "ram_type"))
         IN  IF Truthy(ram_t) /\ Truthy(mb_t)
             THEN IF ram_t.t # "str" \/ mb_t.t # "str" THEN Raised
                  ELSE IF Upper(ram_t.s) # Upper(mb_t.s)
                    THEN Returned(<<Issue("memory", Str(Upper(ram_t.s)), Str(Upper(mb_t.s)))>>)
                  ELSE Returned(<<>>)
             ELSE Returned(<<>>)
    ELSE Returned(<<>>)

\* try: if a and b and float(a) > float(b): issue   except: pass
Exceeds(a, b) ==
    /\ Truthy(a)
    /\ Truthy(b)
    /\ ToFloat(a).ok
    /\ ToFloat(b).ok
    /\ ToFloat(a).h > ToFloat(b).h

\* if gpu and case: GPU length against the case's maximum
GpuRule(sel) ==
    IF Occupied(sel, GPU) /\ Occupied(sel, Gabinete)
    THEN LET gpu == sel[GPU]
             case == sel[Gabinete]
             gl == PyOr(Get(gpu.attributes, "comprimento_mm"), Get(gpu.attributes, "length_mm"))
             cm == PyOr(Get(case.attributes, "gpu_max_mm"),
                        Get(case.attributes, "max_gpu_length_mm"))
         IN  IF Exceeds(gl, cm) THEN Returned(<<Issue("gpu", gl, cm)>>) ELSE Returned(<<>>)
    ELSE Returned(<<>>)

\* if cooler and case: cooler height against the case's clearance
CoolerRule(sel) ==
    IF Occupied(sel, Cooler) /\ Occupied(sel, Gabinete)
    THEN LET cooler == sel[Cooler]
             case == sel[Gabinete]
             ch == PyOr(Get(cooler.attributes, "height_mm"), Get(cooler.attributes, "altura_mm"))
             clearance == PyOr(Get(case.attributes, "cooler_clearance_mm"),
                               Get(case.attributes, "max_cooler_height_mm"))
         IN  IF Exceeds(ch, clearance) THEN Returned(<<Issue("cooler", ch, clearance)>>)
             ELSE Returned(<<>>)
    ELSE Returned(<<>>)

\* A variant of the supply test in which a missing wattage counts as 0.
PsuRuleDefaultZero(sel) ==
    IF Occupied(sel, Fonte)
    THEN LET psu == sel[Fonte]
             watt == PyOr(PyOr(Get(psu.attributes, "watt"), Get(psu.attributes, "power_w")),
                          Num(0))
             rec == estimated_power(sel)[2]
         IN  IF ToInt(watt).ok /\ ToInt(watt).h < rec
             THEN Returned(<<Issue("psu", watt, Num(2 * rec))>>)
             ELSE Returned(<<>>)
    ELSE Returned(<<>>)

\* if psu: try: if watt and int(watt) < rec: issue   except: pass
PsuRule(sel) ==
    IF Occupied(sel, Fonte)
    THEN LET psu == sel[Fonte]
             watt == PyOr(Get(psu.attributes, "watt"), Get(psu.attributes, "power_w"))
             rec == estimated_power(sel)[2]
         IN  IF Truthy(watt) /\ ToInt(watt).ok /\ ToInt(watt).h < rec
             THEN Returned(<<Issue("psu", watt, Num(2 * rec))>>)
             ELSE Returned(<<>>)
    ELSE Returned(<<>>)

\* A variant that runs the supply test before the clearance tests.
CompatibilityIssuesPsuFirst(sel) ==
    LET r1 == SocketRule(sel)
        r2 == MemoryRule(sel)
        r3 == GpuRule(sel)
        r4 == CoolerRule(sel)
        r5 == PsuRule(sel)
    IN  IF r2.raised THEN Raised
        ELSE Returned(r1.issues \o r2.issues \o r5.issues \o r3.issues \o r4.issues)

\* BuildEngine.compatibility_issues: the rules run in order and append to
\* one list; an exception in a rule ends the call.
compatibility_issues(sel) ==
    LET r1 == SocketRule(sel)
        r2 == MemoryRule(sel)
        r3 == GpuRule(sel)
        r4 == CoolerRule(sel)
        r5 == PsuRule(sel)
    IN  IF r2.raised THEN Raised
        ELSE Returned(r1.issues \o r2.issues \o r3.issues \o r4.issues \o r5.issues)

\* The call self.estimated_power()
EstimatedPower ==
    /\ ret' = [raised |-> FALSE, value |-> estimated_power(parts)]
    /\ last' = [op |-> "estimated_power", arg |-> NoValue]
    /\ UNCHANGED parts

\* The call self.compatibility_issues()
CompatibilityIssues ==
    /\ ret' = compatibility_issues(parts)
    /\ last' = [op |-> "compatibility_issues", arg |-> NoValue]
    /\ UNCHANGED parts

-----------------------------------------------------------------------------
(* BuildEngine.assembly_steps *)

RECURSIVE NatDigits(_)
\* The decimal digits of a natural number.
NatDigits(n) ==
    IF n < 10 THEN <<Digits[n + 1]>>
    ELSE NatDigits(n \div 10) \o <<Digits[(n % 10) + 1]>>

\* str(v); a number is written as a float, 2.5 as '2.5' and 2.0 as '2.0'
PyStr(v) ==
    CASE v.t = "str"  -> v.s
      [] v.t = "none" -> <<"N", "o", "n", "e">>
      [] v.t = "bool" -> IF v.b THEN <<"T", "r", "u", "e">> ELSE <<"F", "a", "l", "s", "e">>
      [] v.t = "num"  ->
           (IF v.h < 0 THEN <<"-">> ELSE <<>>)
           \o LET a == IF v.h < 0 THEN -v.h ELSE v.h
              IN  NatDigits(a \div 2) \o <<".">> \o (IF a % 2 = 1 THEN <<"5">> ELSE <<"0">>)

s_m2 == <<"m", ".", "2">>

s_25 == <<"2", ".", "5">>

s_35 == <<"3", ".", "5">>

s_sata == <<"s", "a", "t", "a">>

\* str(storage.attributes.get('form_factor', '')).lower()
FormFactor(storage) ==
    Lower(PyStr(IF "form_factor" \in DOMAIN storage.attributes
                THEN storage.attributes["form_factor"]
                ELSE Str(<<>>)))

\* One instruction line, named by what it instructs.
Step(kind) == [kind |-> kind, issue |-> NoValue]

\* The line f" - {it}" written for one issue.
IssueLine(it) == [kind |-> "issue", issue |-> it]

\* The line appended when the test holds.
StepIf(test, kind) == IF test THEN <<Step(kind)>> ELSE <<>>

\* A variant that lists the issues last to first.
WarningBlockReversed(issues) ==
    IF Len(issues) > 0
    THEN <<Step("warning")>>
         \o [i \in 1..Len(issues) |-> IssueLine(issues[Len(issues) + 1 - i])]
    ELSE <<>>

\* if issues: steps.insert(0, header); steps[1:1] = [f" - {it}" for it in issues]
WarningBlock(issues) ==
    IF Len(issues) > 0
    THEN <<Step("warning")>> \o [i \in 1..Len(issues) |-> IssueLine(issues[i])]
    ELSE <<>>

\* A variant that mounts the motherboard before the power supply.
AssemblyStepsBoardFirst(sel) ==
    LET mb == Occupied(sel, PlacaMae)
        storage == Occupied(sel, Armazenamento)
        ff == IF storage THEN FormFactor(sel[Armazenamento]) ELSE <<>>
        outside ==
            IF mb
            THEN <<Step("mb_prep")>>
                 \o StepIf(Occupied(sel, CPU), "cpu")
                 \o StepIf(Occupied(sel, Cooler), "cooler")
                 \o StepIf(Occupied(sel, RAM), "ram")
                 \o StepIf(storage /\ ff = s_m2, "m2")
            ELSE <<Step("cpu_cooler_first")>> \o StepIf(Occupied(sel, RAM), "ram_loose")
        inside ==
            StepIf(mb, "mb_mount")
            \o StepIf(Occupied(sel, Fonte), "psu")
            \o StepIf(storage /\ ff \in {s_25, s_35, s_sata}, "sata")
            \o StepIf(Occupied(sel, GPU), "gpu")
        steps == <<Step("tools")>> \o outside \o inside
                 \o <<Step("front_panel"), Step("peripherals")>>
        r == compatibility_issues(sel)
    IN  IF r.raised THEN [raised |-> TRUE, steps |-> <<>>]
        ELSE [raised |-> FALSE, steps |-> WarningBlock(r.issues) \o steps]

\* BuildEngine.assembly_steps: the lines in the order they are appended; the
\* call to compatibility_issues comes last and its exception leaves the call.
assembly_steps(sel) ==
    LET mb == Occupied(sel, PlacaMae)
        storage == Occupied(sel, Armazenamento)
        ff == IF storage THEN FormFactor(sel[Armazenamento]) ELSE <<>>
        outside ==
            IF mb
            THEN <<Step("mb_prep")>>
                 \o StepIf(Occupied(sel, CPU), "cpu")
                 \o StepIf(Occupied(sel, Cooler), "cooler")
                 \o StepIf(Occupied(sel, RAM), "ram")
                 \o StepIf(storage /\ ff = s_m2, "m2")
            ELSE <<Step("cpu_cooler_first")>> \o StepIf(Occupied(sel, RAM), "ram_loose")
        inside ==
            StepIf(Occupied(sel, Fonte), "psu")
            \o StepIf(mb, "mb_mount")
            \o StepIf(storage /\ ff \in {s_25, s_35, s_sata}, "sata")
            \o StepIf(Occupied(sel, GPU), "gpu")
        steps == <<Step("tools")>> \o outside \o inside
                 \o <<Step("front_panel"), Step("peripherals")>>
        r == compatibility_issues(sel)
    IN  IF r.raised THEN [raised |-> TRUE, steps |-> <<>>]
        ELSE [raised |-> FALSE, steps |-> WarningBlock(r.issues) \o steps]

\* The call self.assembly_steps()
AssemblySteps ==
    /\ ret' = assembly_steps(parts)
    /\ last' = [op |-> "assembly_steps", arg |-> NoValue]
    /\ UNCHANGED parts

-----------------------------------------------------------------------------
(* json.dumps and json.loads, BuildEngine.bom and the build_history table *)

Quote == "\""

Backslash == "\\"

RECURSIVE Escaped(_)
\* The body of a JSON string: a quote or a backslash is preceded by a
\* backslash; with ensure_ascii=False every other character is kept.
Escaped(s) ==
    IF s = <<>> THEN <<>>
    ELSE (IF Head(s) \in {Quote, Backslash} THEN <<Backslash, Head(s)>> ELSE <<Head(s)>>)
         \o Escaped(Tail(s))

\* A variant that writes the characters as they are.
JsonStringUnescaped(s) == <<Quote>> \o s \o <<Quote>>

\* json.dumps of a str
JsonString(s) == <<Quote>> \o Escaped(s) \o <<Quote>>

\* json.dumps of a value: str, float, bool or None
JsonValue(v) ==
    CASE v.t = "str"  -> JsonString(v.s)
      [] v.t = "num"  -> PyStr(v)
      [] v.t = "bool" -> IF v.b THEN <<"t", "r", "u", "e">> ELSE <<"f", "a", "l", "s", "e">>
      [] v.t = "none" -> <<"n", "u", "l", "l">>

s_id == <<"i", "d">>

s_name == <<"n", "a", "m", "e">>

s_price == <<"p", "r", "i", "c", "e">>

s_attributes == <<"a", "t", "t", "r", "i", "b", "u", "t", "e", "s">>

s_error == <<"e", "r", "r", "o", "r">>

JsonInvalido == <<"J", "S", "O", "N", " ", "i", "n", "v", "á", "l", "i", "d", "o">>

RECURSIVE AttributeMembers(_, _)
\* The members "key": value of an attributes dict, separated by ", ".
AttributeMembers(attributes, keys) ==
    IF keys = {} THEN <<>>
    ELSE LET k == CHOOSE x \in keys : TRUE
         IN  JsonString(k) \o <<":", " ">> \o JsonValue(attributes[k])
             \o (IF keys = {k} THEN <<>> ELSE <<",", " ">>)
             \o AttributeMembers(attributes, keys \ {k})

\* json.dumps of one entry {"id":, "name":, "price":, "attributes":}
EntryJson(e) ==
    <<"{">> \o JsonString(s_id) \o <<":", " ">> \o JsonString(e.id)
    \o <<",", " ">> \o JsonString(s_name) \o <<":", " ">> \o JsonString(e.name)
    \o <<",", " ">> \o JsonString(s_price) \o <<":", " ">> \o JsonValue(Num(e.price))
    \o <<",", " ">> \o JsonString(s_attributes) \o <<":", " ">>
    \o <<"{">> \o AttributeMembers(e.attributes, DOMAIN e.attributes) \o <<"}">>
    \o <<"}">>

RECURSIVE BomMembers(_, _)
\* The members "category": entry of a bill of materials.
BomMembers(b, keys) ==
    IF keys = {} THEN <<>>
    ELSE LET k == CHOOSE x \in keys : TRUE
         IN  JsonString(k) \o <<":", " ">> \o EntryJson(b[k])
             \o (IF keys = {k} THEN <<>> ELSE <<",", " ">>)
             \o BomMembers(b, keys \ {k})

\* json.dumps(bom, ensure_ascii=False).  A dict is written in insertion
\* order; the order of the members has no effect on what json.loads builds.
json_dumps(b) == <<"{">> \o BomMembers(b, DOMAIN b) \o <<"}">>

RECURSIVE SkipWs(_, _)
\* The first position at or after i that holds no whitespace.
SkipWs(t, i) == IF i <= Len(t) /\ t[i] \in Whitespace THEN SkipWs(t, i + 1) ELSE i

NoParse == [ok |-> FALSE, val |-> NoValue, next |-> 0]

Parsed(val, next) == [ok |-> TRUE, val |-> val, next |-> next]

\* A JSON object read into a dict.
Obj(m) == [t |-> "obj", m |-> m]

RECURSIVE ParseChars(_, _, _)
\* The rest of a JSON string after its opening quote; the escapes read are
\* the two that json_dumps writes.
ParseChars(t, i, acc) ==
    IF i > Len(t) THEN NoParse
    ELSE IF t[i] = Quote THEN Parsed(Str(acc), i + 1)
    ELSE IF t[i] = Backslash
      THEN IF i + 1 <= Len(t) /\ t[i + 1] \in {Quote, Backslash}
           THEN ParseChars(t, i + 2, Append(acc, t[i + 1]))
           ELSE NoParse
    ELSE ParseChars(t, i + 1, Append(acc, t[i]))

IsDigit(ch) == \E d \in 1..10 : Digits[d] = ch

RECURSIVE DigitsEnd(_, _)
\* The position after the run of digits that starts at i.
DigitsEnd(t, i) == IF i <= Len(t) /\ IsDigit(t[i]) THEN DigitsEnd(t, i + 1) ELSE i

\* A JSON number: digits with an optional sign and an optional fraction,
\* read in half units; the model writes fractions .0 and .5 only.
ParseNumber(t, i) ==
    LET neg == i <= Len(t) /\ t[i] = "-"
        a == IF neg THEN i + 1 ELSE i
        b == DigitsEnd(t, a)
        hasFrac == b <= Len(t) /\ t[b] = "."
        c == IF hasFrac THEN DigitsEnd(t, b + 1) ELSE b
        whole == 2 * DecimalValue(SubSeq(t, a, b - 1))
        frac == SubSeq(t, b + 1, c - 1)
        h == whole + (IF hasFrac /\ frac = <<"5">> THEN 1 ELSE 0)
    IN  IF b = a \/ (hasFrac /\ frac \notin {<<"0">>, <<"5">>}) THEN NoParse
        ELSE Parsed(Num(IF neg THEN -h ELSE h), c)

\* The text holds word at position i.
HasWord(t, i, word) ==
    i + Len(word) - 1 <= Len(t) /\ SubSeq(t, i, i + Len(word) - 1) = word

RECURSIVE ParseValue(_, _)
RECURSIVE ParseMembers(_, _, _)
\* One JSON value that starts at or after position i.
ParseValue(t, i0) ==
    LET i == SkipWs(t, i0)
    IN  IF i > Len(t) THEN NoParse
        ELSE IF t[i] = Quote THEN ParseChars(t, i + 1, <<>>)
        ELSE IF t[i] = "{"
          THEN LET j == SkipWs(t, i + 1)
               IN  IF j <= Len(t) /\ t[j] = "}" THEN Parsed(Obj(EmptyMap), j + 1)
                   ELSE ParseMembers(t, j, EmptyMap)
        ELSE IF HasWord(t, i, <<"t", "r", "u", "e">>) THEN Parsed(Bool(TRUE), i + 4)
        ELSE IF HasWord(t, i, <<"f", "a", "l", "s", "e">>) THEN Parsed(Bool(FALSE), i + 5)
        ELSE IF HasWord(t, i, <<"n", "u", "l", "l">>) THEN Parsed(NoValue, i + 4)
        ELSE ParseNumber(t, i)

\* The members of an object from position i on, up to its closing brace; a
\* key read twice keeps its last value.
ParseMembers(t, i, acc) ==
    IF i > Len(t) \/ t[i] # Quote THEN NoParse
    ELSE LET k == ParseChars(t, i + 1, <<>>)
         IN  IF ~k.ok THEN NoParse
             ELSE LET c == SkipWs(t, k.next)
                  IN  IF c > Len(t) \/ t[c] # ":" THEN NoParse
                      ELSE LET v == ParseValue(t, c + 1)
                           IN  IF ~v.ok THEN NoParse
                               ELSE LET acc2 == (k.val.s :> v.val) @@ acc
                                        e == SkipWs(t, v.next)
                                    IN  IF e > Len(t) THEN NoParse
                                        ELSE IF t[e] = "}" THEN Parsed(Obj(acc2), e + 1)
                                        ELSE IF t[e] = ","
                                          THEN ParseMembers(t, SkipWs(t, e + 1), acc2)
                                        ELSE NoParse

\* json.loads: one value and nothing after it, else JSONDecodeError
json_loads(t) ==
    LET r == ParseValue(t, 1)
    IN  IF r.ok /\ SkipWs(t, r.next) = Len(t) + 1 THEN r ELSE NoParse

\* BuildEngine.bom
bom(sel) ==
    [cat \in DOMAIN sel |->
        [id |-> sel[cat].id, name |-> sel[cat].name, price |-> sel[cat].price,
         attributes |-> sel[cat].attributes]]

\* datetime.isoformat(), reduced to its seconds field: two digits, and six
\* digits of microseconds unless they are zero.  The clock counts half seconds.
isoformat(clock) ==
    <<Digits[((clock \div 2) \div 10) + 1], Digits[((clock \div 2) % 10) + 1]>>
    \o (IF clock % 2 = 1 THEN <<".", "5", "0", "0", "0", "0", "0">> ELSE <<>>)

\* The place of a character of a timestamp in the byte order.
CharRank(ch) == IF ch = "." THEN 0 ELSE DigitValue(ch) + 1

RECURSIVE TextLess(_, _)
\* a < b as SQLite compares TEXT: byte by byte, a proper prefix first.
TextLess(a, b) ==
    IF b = <<>> THEN FALSE
    ELSE IF a = <<>> THEN TRUE
    ELSE IF Head(a) = Head(b) THEN TextLess(Tail(a), Tail(b))
    ELSE CharRank(Head(a)) < CharRank(Head(b))

\* INSERT INTO build_history: the row gets the next id
save_build_history(user_id, name, b, clock) ==
    build_history' = Append(build_history,
                            [id |-> Len(build_history) + 1, user_id |-> user_id,
                             name |-> name, bom_json |-> json_dumps(b),
                             created_at |-> isoformat(clock)])

\* A variant of the SELECT without its WHERE clause.
SelectedAllUsers(rows, user_id) == {i \in 1..Len(rows) : TRUE}

\* The rows that SELECT ... WHERE user_id = ? picks
Selected(rows, user_id) == {i \in 1..Len(rows) : rows[i].user_id = user_id}

\* The orders ORDER BY created_at DESC may give the picked rows: rows with
\* equal created_at come in an order SQL leaves open.
Ordered(rows, S) ==
    {f \in [1..Cardinality(S) -> S] :
        /\ \A i, j \in 1..Cardinality(S) : i # j => f[i] # f[j]
        /\ \A i, j \in 1..Cardinality(S) :
              i < j => ~TextLess(rows[f[i]].created_at, rows[f[j]].created_at)}

\* The dict get_user_builds makes of one row
BuildEntry(r) ==
    LET loaded == json_loads(r.bom_json)
    IN  [id |-> r.id, name |-> r.name,
         bom |-> IF loaded.ok THEN loaded.val ELSE Obj(s_error :> Str(JsonInvalido)),
         created_at |-> r.created_at]

\* The lists get_user_builds may return
get_user_builds(rows, user_id) ==
    {[i \in DOMAIN f |-> BuildEntry(rows[f[i]])] : f \in Ordered(rows, Selected(rows, user_id))}

Users == {1, 2}

\* PCXApp.save_build: an empty build is refused with a warning; else the
\* bill of materials is saved under the session's user with the time read
\* from the clock, which may have advanced since it was last read.
SaveBuild ==
    /\ Len(build_history) < MaxBuilds
    /\ IF parts = EmptyMap
       THEN UNCHANGED storeVars
       ELSE /\ \E t \in {now, now + 1} :
                  /\ now' = t
                  /\ save_build_history(app_user, "b", bom(parts), t)
            /\ UNCHANGED app_user
    /\ last' = [op |-> "save_build", arg |-> NoValue]
    /\ ret' = NoValue
    /\ UNCHANGED parts

\* A byte of a stored BLOB that no UTF-8 text holds.
InvalidByte == "0xFF"

\* The payload is TEXT, or bytes that json.loads can decode.
Decodable(payload) == \A i \in DOMAIN payload : payload[i] # InvalidByte

\* PCXApp.show_my_builds: builds = get_user_builds(self.conn, self.user_id).
\* get_user_builds catches json.JSONDecodeError only: on a picked row whose
\* payload is bytes that are no UTF-8 text, json.loads raises
\* UnicodeDecodeError and the call raises.
ShowMyBuilds ==
    /\ IF \E i \in Selected(build_history, app_user) : ~Decodable(build_history[i].bom_json)
       THEN ret' = [raised |-> TRUE, value |-> <<>>]
       ELSE \E builds \in get_user_builds(build_history, app_user) :
               ret' = [raised |-> FALSE, value |-> builds]
    /\ last' = [op |-> "get_user_builds", arg |-> app_user]
    /\ UNCHANGED <<parts, storeVars>>

\* LoginWindow.on_login after the running window was closed: a new PCXApp
\* with a new BuildEngine on the same database.
Login ==
    /\ \E u \in Users : app_user' = u
    /\ parts' = EmptyMap
    /\ last' = [op |-> "init", arg |-> NoValue]
    /\ ret' = NoValue
    /\ UNCHANGED <<build_history, now>>

-----------------------------------------------------------------------------
(* _parse_price_brl *)

\* s.count(ch)
Count(s, ch) == Cardinality({i \in 1..Len(s) : s[i] = ch})

RECURSIVE Replace(_, _, _)
\* s.replace(old, new): occurrences taken left to right, not overlapping
Replace(s, old, new) ==
    IF Len(s) < Len(old) THEN s
    ELSE IF SubSeq(s, 1, Len(old)) = old
      THEN new \o Replace(SubSeq(s, Len(old) + 1, Len(s)), old, new)
    ELSE <<Head(s)>> \o Replace(Tail(s), old, new)

\* set("0123456789.,")
allowed == {Digits[d] : d \in 1..10} \cup {".", ","}

RECURSIVE Dec(_, _)
\* The number n / 10^k, written with the least k.
Dec(n, k) ==
    IF k > 0 /\ n % 10 = 0 THEN Dec(n \div 10, k - 1) ELSE [t |-> "dec", n |-> n, k |-> k]

\* The value a call returned / the exception that left it.
ReturnedValue(v) == [raised |-> FALSE, value |-> v]

IndexError == [raised |-> TRUE, value |-> NoValue]

\* try: return float(s)  except: return 0.0  -- on a text of digits, periods
\* and commas: float reads digits with at most one period and at least one
\* digit, and nothing with a comma.
FloatOrZero(s) ==
    LET digits == SelectSeq(s, IsDigit)
        dot == CHOOSE i \in 1..Len(s) : s[i] = "."
    IN  IF Count(s, ",") > 0 \/ Count(s, ".") > 1 \/ digits = <<>>
        THEN ReturnedValue(Dec(0, 0))
        ELSE ReturnedValue(Dec(DecimalValue(digits),
                               IF Count(s, ".") = 1 THEN Len(s) - dot ELSE 0))

\* _parse_price_brl(text); s[-3] on a text shorter than three characters is
\* an IndexError, raised outside the try block
_parse_price_brl(text) ==
    IF ~Truthy(text) THEN ReturnedValue(Dec(0, 0))
    ELSE LET stripped == Replace(Replace(Strip(text.s), <<"\n">>, <<" ">>), <<" ">>, <<>>)
             txt == Replace(Replace(stripped, <<"R", "$">>, <<>>), <<"r", "$">>, <<>>)
             s == SelectSeq(txt, LAMBDA ch : ch \in allowed)
         IN  IF s = <<>> THEN ReturnedValue(Dec(0, 0))
             ELSE IF Count(s, ",") = 1 /\ Len(s) < 3 THEN IndexError
             ELSE IF Count(s, ",") = 1 /\ s[Len(s) - 2] = ","
               THEN FloatOrZero(Replace(Replace(s, <<".">>, <<>>), <<",">>, <<".">>))
             ELSE IF Count(s, ".") = 1 /\ Len(s) < 3 THEN IndexError
             ELSE IF Count(s, ".") = 1 /\ s[Len(s) - 2] = "."
               THEN FloatOrZero(s)
             ELSE FloatOrZero(Replace(IF Count(s, ".") > 1 THEN Replace(s, <<".">>, <<>>) ELSE s,
                                      <<",">>, <<".">>))

\* The characters of the texts tried: a digit, the separators, the currency
\* sign, a blank and a letter.
PriceAlphabet == {"5", ",", ".", "R", "$", " ", "x"}

RECURSIVE TextsOfLength(_)
TextsOfLength(n) ==
    IF n = 0 THEN {<<>>}
    ELSE {Append(s, ch) : s \in TextsOfLength(n - 1), ch \in PriceAlphabet}

\* Every text of up to MaxText characters, some prices as shops write
\* them, and None.
PriceInputs ==
    {Str(s) : s \in UNION {TextsOfLength(n) : n \in 0..MaxText}}
    \cup {Str(<<"R", "$", " ", "1", ".", "2", "3", "4", ",", "5", "6">>),
          Str(<<"1", "2", "3", "4", ".", "5", "6">>),
          Str(<<"1", ".", "2", "3", "4", ".", "5", "6", "7">>),
          Str(<<"1", ",", "2", ",", "3">>),
          NoValue}

PriceInit ==
    /\ price_arg \in PriceInputs
    /\ price_res = <<>>

\* One call of _parse_price_brl on the text.
ParsePrice ==
    /\ price_res = <<>>
    /\ price_res' = <<_parse_price_brl(price_arg)>>
    /\ UNCHANGED price_arg

-----------------------------------------------------------------------------
(* Password reset by token: request_password_reset, validate_reset_token, *)
(* mark_token_used and LoginWindow.on_reset_email                          *)

\* Minutes a reset token stays valid.
RESET_TOKEN_TTL_MIN == 15

\* timedelta(minutes=RESET_TOKEN_TTL_MIN) on the clock, which counts half
\* seconds.
TtlHalves == 2 * 60 * RESET_TOKEN_TTL_MIN

TwoDigits(n) == <<Digits[(n \div 10) + 1], Digits[(n % 10) + 1]>>

\* datetime.isoformat(), reduced to the time of day: HH:MM:SS, and six
\* digits of microseconds unless they are zero.
IsoTime(clock) ==
    LET sec == clock \div 2
    IN  TwoDigits(sec \div 3600) \o <<":">> \o TwoDigits((sec \div 60) % 60) \o <<":">>
        \o TwoDigits(sec % 60)
        \o (IF clock % 2 = 1 THEN <<".", "5", "0", "0", "0", "0", "0">> ELSE <<>>)

\* datetime.fromisoformat(text) on such a text: the clock value, or a
\* ValueError when the text has another shape.
fromisoformat(text) ==
    LET field(i) == SubSeq(text, i, i + 1)
        shaped == /\ Len(text) \in {8, 15}
                  /\ text[3] = ":" /\ text[6] = ":"
                  /\ IsDigits(field(1)) /\ IsDigits(field(4)) /\ IsDigits(field(7))
                  /\ Len(text) = 15 => SubSeq(text, 9, 15) = <<".", "5", "0", "0", "0", "0", "0">>
    IN  IF shaped
        THEN [ok |-> TRUE,
              clock |-> 2 * (3600 * DecimalValue(field(1)) + 60 * DecimalValue(field(4))
                             + DecimalValue(field(7)))
                        + (IF Len(text) = 15 THEN 1 ELSE 0)]
        ELSE [ok |-> FALSE, clock |-> 0]

\* The rows of table users: two accounts registered with the same e-mail.
users ==
    <<[id |-> 1, username |-> "ana", email |-> "a@x"],
      [id |-> 2, username |-> "bia", email |-> "a@x"]>>

\* SELECT id,email FROM users WHERE username = ? OR email = ?
FoundUsers(username_or_email) ==
    {i \in 1..Len(users) :
        users[i].username = username_or_email \/ users[i].email = username_or_email}

\* request_password_reset for the row fetchone() gave: a row is inserted
\* with a new token, unused, expiring RESET_TOKEN_TTL_MIN minutes from now.
\* secrets.token_urlsafe(24) draws 192 random bits: tokens are values that
\* do not repeat, numbered as they are drawn.
request_password_reset(uid, clock) ==
    Append(reset_tokens,
           [id |-> Len(reset_tokens) + 1, user_id |-> uid,
            token |-> Len(reset_tokens) + 1,
            expires_at |-> IsoTime(clock + TtlHalves), used |-> 0])

\* A variant without the test of the used flag.
ValidateIgnoringUsed(rows, token, clock) ==
    LET found == {i \in 1..Len(rows) : rows[i].token = token}
    IN  IF found = {} THEN NoValue
        ELSE LET row == rows[SetMin(found)]
                 expires == fromisoformat(row.expires_at)
             IN  IF ~expires.ok THEN NoValue
                 ELSE IF clock > expires.clock THEN NoValue
                 ELSE Num(2 * row.user_id)

\* validate_reset_token: the user id of the token's row, or None when there
\* is no row, the row is used, its expiry cannot be read or is past.
validate_reset_token(rows, token, clock) ==
    LET found == {i \in 1..Len(rows) : rows[i].token = token}
    IN  IF found = {} THEN NoValue
        ELSE LET row == rows[SetMin(found)]
                 expires == fromisoformat(row.expires_at)
             IN  IF row.used # 0 THEN NoValue
                 ELSE IF ~expires.ok THEN NoValue
                 ELSE IF clock > expires.clock THEN NoValue
                 ELSE Num(2 * row.user_id)

\* mark_token_used: UPDATE reset_tokens SET used = 1 WHERE token = ?
mark_token_used(rows, token) ==
    [i \in 1..Len(rows) |-> IF rows[i].token = token THEN [rows[i] EXCEPT !.used = 1]
                            ELSE rows[i]]

\* Where on_reset_email waits for a dialog, or how its last run ended, with
\* the token typed and the user id validated.
Dialog(at, tok, uid) == [at |-> at, tok |-> tok, uid |-> uid]

Waiting == {"token", "newpwd"}

\* on_reset_email up to the dialog that asks for the token: an empty answer
\* returns, an unknown name shows an error, else a token is issued for the
\* row fetchone() gives and shown.
ResetAskWho(who) ==
    /\ reset_dialog.at \notin Waiting
    /\ Len(reset_tokens) < MaxTokens
    /\ IF who = ""
       THEN /\ reset_dialog' = Dialog("cancelled", 0, NoValue)
            /\ UNCHANGED reset_tokens
       ELSE IF FoundUsers(who) = {}
       THEN /\ reset_dialog' = Dialog("not_found", 0, NoValue)
            /\ UNCHANGED reset_tokens
       ELSE /\ \E i \in FoundUsers(who) :
                  reset_tokens' = request_password_reset(users[i].id, now)
            /\ reset_dialog' = Dialog("token", 0, NoValue)
    /\ UNCHANGED <<password, now>>

\* on_reset_email from the token dialog to the password dialog: time has
\* passed while the user typed; an empty answer returns, a token that
\* validate_reset_token rejects shows an error.  Token 0 is the empty text.
ResetEnterToken(tok, clock) ==
    /\ reset_dialog.at = "token"
    /\ now' = clock
    /\ LET uid == validate_reset_token(reset_tokens, tok, clock)
       IN  reset_dialog' =
              IF tok = 0 THEN Dialog("cancelled", tok, NoValue)
              ELSE IF ~Truthy(uid) THEN Dialog("invalid", tok, NoValue)
              ELSE Dialog("newpwd", tok, uid)
    /\ UNCHANGED <<reset_tokens, password>>

\* on_reset_email from the password dialog on: an empty password returns,
\* one of fewer than 6 characters shows an error, else
\* set_new_password_for_user and mark_token_used run.
ResetEnterPassword(newpwd) ==
    /\ reset_dialog.at = "newpwd"
    /\ IF newpwd = <<>>
       THEN /\ reset_dialog' = [reset_dialog EXCEPT !.at = "cancelled"]
            /\ UNCHANGED <<reset_tokens, password>>
       ELSE IF Len(newpwd) < 6
       THEN /\ reset_dialog' = [reset_dialog EXCEPT !.at = "short"]
            /\ UNCHANGED <<reset_tokens, password>>
       ELSE /\ password' = [password EXCEPT ![reset_dialog.uid.h \div 2] = newpwd]
            /\ reset_tokens' = mark_token_used(reset_tokens, reset_dialog.tok)
            /\ reset_dialog' = [reset_dialog EXCEPT !.at = "updated"]
    /\ UNCHANGED now

-----------------------------------------------------------------------------
(* Catalog.load_csv *)

\* price = float(row.get(price_col)) if row.get(price_col) else 0.0, with
\* except: price = 0.0.  float() drops surrounding whitespace and reads
\* digits with at most one period; any other character is a ValueError.
CsvPrice(cell) ==
    IF ~Truthy(cell) THEN Dec(0, 0)
    ELSE LET st == Strip(cell.s)
         IN  IF \A i \in 1..Len(st) : st[i] \in allowed
             THEN FloatOrZero(st).value
             ELSE Dec(0, 0)

\* The Part that the loop body of Catalog.load_csv makes of one row of a
\* file with the columns id, category, name and price; a cell the row lacks
\* reads as None.
CsvPart(row) ==
    Part(PyOr(PyOr(row.id, row.sku), Str(<<>>)).s,
         PyOr(row.category, Str(Unknown)).s,
         PyOr(row.name, Str(<<>>)).s,
         CsvPrice(row.price),
         EmptyMap)

\* One turn of the loop of Catalog.load_csv: the row is made a Part and
\* added.
LoadCsvRow(row) ==
    /\ CatalogSize < MaxCatalog
    /\ add_part(CsvPart(row))
    /\ last' = [op |-> "load_csv", arg |-> row]
    /\ UNCHANGED <<parts, ret>>

-----------------------------------------------------------------------------
(* PCXApp: the sample-catalog thread, file loads and scraper imports *)

\* A record of a file or a card of a page that cannot be read.
Malformed == [t |-> "malformed"]

\* The Catalog object as a value.
CatalogOf(c, i) == [by_cat |-> c, by_id |-> i]

\* The catalog after add_part(p)
CatalogWith(catalog, p) ==
    LET norm_cat == _normalize_category(p.category)
        np == [p EXCEPT !.category = norm_cat]
    IN  CatalogOf([c \in DOMAIN catalog.by_cat \cup {norm_cat} |->
                      IF c = norm_cat
                      THEN (IF c \in DOMAIN catalog.by_cat THEN catalog.by_cat[c] ELSE <<>>)
                           \o <<np>>
                      ELSE catalog.by_cat[c]],
                  [i \in DOMAIN catalog.by_id \cup {p.id} |->
                      IF i = p.id THEN np ELSE catalog.by_id[i]])

RECURSIVE CatalogWithAll(_, _)
\* for p in ps: catalog.add_part(p)
CatalogWithAll(catalog, ps) ==
    IF ps = <<>> THEN catalog
    ELSE CatalogWithAll(CatalogWith(catalog, Head(ps)), Tail(ps))

RECURSIVE LoadedPrefix(_)
\* The records read before the first one that cannot be read.
LoadedPrefix(records) ==
    IF records = <<>> \/ Head(records) = Malformed THEN <<>>
    ELSE <<Head(records)>> \o LoadedPrefix(Tail(records))

\* temp_catalog = Catalog(); temp_catalog.load_csv(p) / load_json(p): the
\* records are added one by one and an unreadable one raises.
TempLoad(records) ==
    [raised |-> \E i \in 1..Len(records) : records[i] = Malformed,
     catalog |-> CatalogWithAll(CatalogOf(EmptyMap, EmptyMap), LoadedPrefix(records))]

\* The parts in the order of  for cat, parts in temp_catalog.by_cat.items():
\* for part in parts  -- categories by first appearance, parts by position.
ItemsOrder(records) ==
    LET n == Len(records)
        cat(i) == _normalize_category(records[i].category)
        first(i) == SetMin({j \in 1..n : cat(j) = cat(i)})
        key(i) == first(i) * (n + 1) + i
        f == CHOOSE g \in [1..n -> 1..n] :
                \A i, j \in 1..n : i < j => key(g[i]) < key(g[j])
    IN  [i \in 1..n |-> [records[f[i]] EXCEPT !.category = cat(f[i])]]

\* The most recent step of the application: its thread, what ran, whether
\* it failed.
Ran(thread, op, failed) == [thread |-> thread, op |-> op, failed |-> failed]

\* A variant that loads the file into the application's catalog itself.
LoadFileDirect(op, records) ==
    LET loaded == CatalogWithAll(CatalogOf(by_cat, by_id), LoadedPrefix(records))
        raised == \E i \in 1..Len(records) : records[i] = Malformed
    IN  /\ by_cat' = loaded.by_cat
        /\ by_id' = loaded.by_id
        /\ ran' = Ran("ui", op, raised)

\* PCXApp.load_csv / PCXApp.load_json: the file is loaded into a temporary
\* catalog; an exception shows an error box, else every part of the
\* temporary catalog is added to self.catalog.
LoadFile(op, records) ==
    LET temp == TempLoad(records)
        loaded == CatalogWithAll(CatalogOf(by_cat, by_id), ItemsOrder(records))
    IN  IF temp.raised
        THEN /\ UNCHANGED <<by_cat, by_id>>
             /\ ran' = Ran("ui", op, TRUE)
        ELSE /\ by_cat' = loaded.by_cat
             /\ by_id' = loaded.by_id
             /\ ran' = Ran("ui", op, FALSE)

\* PCXApp._run_scraper: starts the worker thread for a page.
RunScraper(page) ==
    /\ workers' = Append(workers, page)
    /\ ran' = Ran("ui", "_run_scraper", FALSE)
    /\ UNCHANGED <<by_cat, by_id, after_queue>>

\* worker(): the scraper returns its list of parts or raises; either way a
\* callback for the UI thread is queued with self.after(0, ...).
Worker(w) ==
    LET page == workers[w]
        raised == \E i \in 1..Len(page) : page[i] = Malformed
    IN  /\ workers' = [i \in 1..(Len(workers) - 1) |->
                          IF i < w THEN workers[i] ELSE workers[i + 1]]
        /\ after_queue' = Append(after_queue,
                                 IF raised THEN [cb |-> "_handle_scraper_error", parts |-> <<>>]
                                 ELSE [cb |-> "_handle_scraper_success", parts |-> page])
        /\ ran' = Ran("worker", "worker", raised)
        /\ UNCHANGED <<by_cat, by_id>>

\* The UI thread runs the next queued callback: _handle_scraper_success
\* adds every part, _handle_scraper_error reports.
HandleScraper ==
    /\ after_queue # <<>>
    /\ LET call == Head(after_queue)
           loaded == CatalogWithAll(CatalogOf(by_cat, by_id), call.parts)
       IN  /\ by_cat' = loaded.by_cat
           /\ by_id' = loaded.by_id
           /\ ran' = Ran("ui", call.cb, call.cb = "_handle_scraper_error")
    /\ after_queue' = Tail(after_queue)
    /\ UNCHANGED workers

\* The parts _load_sample_catalog adds; the first of the sixteen of the source.
samples ==
    <<Part("cpu_01", CPU, "n", 1600,
           ("socket" :> Str(<<"L", "G", "A", "1", "7", "0", "0">>)) @@ ("tdp_w" :> Num(130)))>>

\* _load_sample_catalog, run by the thread PCXApp.__init__ starts:
\* self.catalog = Catalog()
SampleThreadReplace ==
    /\ loader = 0
    /\ by_cat' = EmptyMap
    /\ by_id' = EmptyMap
    /\ loader' = 1
    /\ ran' = Ran("sample_thread", "Catalog", FALSE)
    /\ UNCHANGED <<workers, after_queue>>

\* _load_sample_catalog: self.catalog.add_part(p) for the next sample
SampleThreadAdd ==
    /\ loader \in 1..Len(samples)
    /\ LET loaded == CatalogWith(CatalogOf(by_cat, by_id), samples[loader])
       IN  /\ by_cat' = loaded.by_cat
           /\ by_id' = loaded.by_id
    /\ loader' = loader + 1
    /\ ran' = Ran("sample_thread", "add_part", FALSE)
    /\ UNCHANGED <<workers, after_queue>>

\* PCXApp.on_add_part: the part picked in the list goes into the build.
OnAddPart ==
    /\ \E c \in DOMAIN by_cat : \E i \in 1..Len(by_cat[c]) : add(by_cat[c][i])
    /\ ran' = Ran("ui", "on_add_part", FALSE)

\* PCXApp.on_remove: the row picked in the build tree is removed.
OnRemove ==
    /\ \E cat \in DOMAIN parts : remove(cat)
    /\ ran' = Ran("ui", "on_remove", FALSE)

-----------------------------------------------------------------------------
(* Parts offered to the engine. *)

AM4 == <<"A", "M", "4">>

LGA1700 == <<"L", "G", "A", "1", "7", "0", "0">>

DDR4 == <<"D", "D", "R", "4">>

DDR5 == <<"D", "D", "R", "5">>

Text == <<"a", "b", "c">>

\* Parts that differ in category label and id only: every key of cat_map,
\* and labels cat_map does not list.
SlotPool ==
    {Part("a", category, "n", 0, EmptyMap) :
        category \in DOMAIN cat_map \cup {Monitor, Storage, s_motherboard}}
    \cup {Part("b", category, "n", 0, EmptyMap) : category \in {PlacaMae, Monitor}}

\* Arguments of remove: slot keys, an alias and labels outside cat_map.
RemoveArgs == {PlacaMae, Fonte, Armazenamento, Cooler, Motherboard, Monitor}

CpuPool ==
    {Part("cpu1", CPU, "n", 0, ("socket" :> Str(AM4)) @@ ("tdp_w" :> Num(130))),
     Part("cpu2", CPU, "n", 0,
          ("soquete" :> Str(LGA1700)) @@ ("tdp" :> Num(131))),
     Part("cpu3", CPU, "n", 0, EmptyMap),
     Part("cpu4", CPU, "n", 0,
          ("socket" :> Str(<<>>)) @@ ("tdp_w" :> Num(0)) @@ ("tdp" :> Num(200))
          @@ ("required_bios" :> Str(<<"F", "2", "0">>)))}

MotherboardPool ==
    {Part("mb1", PlacaMae, "n", 0, ("socket" :> Str(AM4)) @@ ("mem_type" :> Str(DDR4))),
     Part("mb2", PlacaMae, "n", 0,
          ("soquete" :> Str(LGA1700)) @@ ("ram_type" :> Str(Lower(DDR5)))),
     Part("mb3", PlacaMae, "n", 0, EmptyMap),
     Part("mb4", PlacaMae, "n", 0, ("socket" :> Str(AM4)) @@ ("mem_type" :> Num(8)))}

RamPool ==
    {Part("ram1", RAM, "n", 0, ("tipo" :> Str(Lower(DDR4)))),
     Part("ram2", RAM, "n", 0, ("mem_type" :> Str(DDR5))),
     Part("ram3", RAM, "n", 0, ("type" :> Num(8))),
     Part("ram4", RAM, "n", 0, ("tipo" :> Bool(TRUE))),
     Part("ram5", RAM, "n", 0, EmptyMap)}

GpuPool ==
    {Part("gpu1", GPU, "n", 0, ("comprimento_mm" :> Num(620)) @@ ("tdp_w" :> Num(340))),
     Part("gpu2", GPU, "n", 0, ("length_mm" :> Str(<<"3", "1", "0", ".", "5">>))),
     Part("gpu3", GPU, "n", 0, ("length_mm" :> Str(Text)) @@ ("tdp" :> Str(Text))),
     Part("gpu4", GPU, "n", 0, EmptyMap)}

CasePool ==
    {Part("case1", Gabinete, "n", 0,
          ("gpu_max_mm" :> Num(620)) @@ ("cooler_clearance_mm" :> Num(320))),
     Part("case2", Gabinete, "n", 0,
          ("max_gpu_length_mm" :> Str(Text)) @@ ("max_cooler_height_mm" :> Str(Text))),
     Part("case3", Gabinete, "n", 0, EmptyMap)}

CoolerPool ==
    {Part("cooler1", Cooler, "n", 0, ("height_mm" :> Num(320))),
     Part("cooler2", Cooler, "n", 0, ("altura_mm" :> Num(330))),
     Part("cooler3", Cooler, "n", 0, ("height_mm" :> Str(Text))),
     Part("cooler4", Cooler, "n", 0, EmptyMap)}

PsuPool ==
    {Part("psu1", Fonte, "n", 0, ("watt" :> Num(130))),
     Part("psu2", Fonte, "n", 0, ("power_w" :> Num(128))),
     Part("psu3", Fonte, "n", 0, ("watt" :> Str(<<"3", "7", "1">>))),
     Part("psu4", Fonte, "n", 0, ("watt" :> Num(740))),
     Part("psu5", Fonte, "n", 0, ("watt" :> Str(Text))),
     Part("psu6", Fonte, "n", 0, EmptyMap)}

StoragePool ==
    {Part("ssd1", Armazenamento, "n", 0, ("form_factor" :> Str(<<"M", ".", "2">>))),
     Part("ssd2", SSD, "n", 0, ("form_factor" :> Num(5))),
     Part("hdd1", HDD, "n", 0, ("form_factor" :> Str(<<"S", "A", "T", "A">>))),
     Part("ssd3", Armazenamento, "n", 0, EmptyMap)}

\* Parts for whole builds: per slot a part that passes every rule and parts
\* that trip one.
BuildPool ==
    {Part("cpu5", CPU, "n", 0, ("socket" :> Str(AM4)) @@ ("tdp_w" :> Num(130))),
     Part("cpu6", CPU, "n", 0,
          ("socket" :> Str(LGA1700)) @@ ("bios_note" :> Str(<<"F", "2", "0">>))),
     Part("mb5", PlacaMae, "n", 0, ("socket" :> Str(AM4)) @@ ("mem_type" :> Str(DDR4))),
     Part("ram6", RAM, "n", 0, ("mem_type" :> Str(Lower(DDR4)))),
     Part("ram7", RAM, "n", 0, ("mem_type" :> Str(DDR5))),
     Part("ram8", RAM, "n", 0, ("type" :> Num(8))),
     Part("gpu5", GPU, "n", 0, ("length_mm" :> Num(560)) @@ ("tdp_w" :> Num(340))),
     Part("gpu6", PlacaDeVideo, "n", 0, ("length_mm" :> Num(700))),
     Part("case4", Gabinete, "n", 0,
          ("gpu_max_mm" :> Num(620)) @@ ("cooler_clearance_mm" :> Num(320))),
     Part("case5", Case, "n", 0,
          ("gpu_max_mm" :> Num(0)) @@ ("cooler_clearance_mm" :> Num(0))),
     Part("cooler5", Cooler, "n", 0, ("height_mm" :> Num(300))),
     Part("cooler6", AIO, "n", 0, ("height_mm" :> Num(330))),
     Part("psu7", Fonte, "n", 0, ("watt" :> Num(1300))),
     Part("psu8", PSU, "n", 0, ("watt" :> Num(100)))}
    \cup StoragePool

\* Parts with ids, names, prices and attributes to save: a name holding a
\* quote and a backslash, a price with a fraction, alias labels.
HistoryPool ==
    {Part(<<"c", "2">>, Processador, <<"2", "7", Quote, " ", Backslash>>, 2469,
          (<<"t", "d", "p">> :> Num(131))),
     Part(<<"m", "1">>, Motherboard, <<"B">>, 1600,
          (<<"o", "k">> :> Bool(TRUE)) @@ (<<"s">> :> Str(<<"a", ",", " ", "}">>)))}

\* Payloads found in the bom_json column of a database file that was
\* written by this program and damaged since: a saved bill of materials, the
\* same text cut short, cut inside a string, an empty text, and bytes that
\* are no text.
StoredPayloads ==
    LET saved == json_dumps(bom(CPU :> Part(<<"c">>, Processador, <<"x">>, 2, EmptyMap)))
    IN  {saved, SubSeq(saved, 1, Len(saved) - 1), SubSeq(saved, 1, 4), <<>>,
         <<InvalidByte>>}

\* The rows of such a file: ids in insertion order.
StoredRows(n) ==
    {rows \in [1..n -> [id : 1..n, user_id : Users, name : {"b"},
                        bom_json : StoredPayloads,
                        created_at : {isoformat(0), isoformat(1)}]] :
        \A i \in 1..n : rows[i].id = i}

\* Price cells of a CSV file: Brazilian currency texts, plain decimals, a
\* padded decimal, a text without a number, an empty cell and no cell.
CsvPrices ==
    {Str(<<"R", "$", " ", "1", ".", "2", "3", "4", ",", "5", "6">>),
     Str(<<"1", "2", "3", "4", ".", "5", "6">>),
     Str(<<"5", ",", "5", "0">>),
     Str(<<" ", "5", ".", "5">>),
     Str(<<"5">>),
     Str(<<"x">>),
     Str(<<>>),
     NoValue}

\* Rows of a CSV file.
CsvRows ==
    [id : {Str(<<"a">>)}, sku : {NoValue}, category : {Str(s_gpu), NoValue},
     name : {Str(<<"x">>)}, price : CsvPrices]

\* Parts a file or a page offers.
AppPool ==
    {Part("a", s_gpu, "x", 0, EmptyMap)}

\* Files and pages: up to MaxBatch records, each a part or unreadable.
Batches ==
    UNION {[1..n -> AppPool \cup {Malformed}] : n \in 0..MaxBatch}

\* Parts with the attributes the power estimate and the rules read.
CompatPool ==
    CpuPool \cup MotherboardPool \cup RamPool \cup GpuPool \cup CasePool
    \cup CoolerPool \cup PsuPool

-----------------------------------------------------------------------------
(* Specifications. *)

NormIdle ==
    /\ norm_arg = <<>>
    /\ norm_res = <<>>

\* BuildEngine.__init__
EngineInit ==
    /\ parts = EmptyMap
    /\ last = [op |-> "init", arg |-> NoValue]
    /\ ret = NoValue

\* The engine fed with labelled parts.
AddSlotPart ==
    /\ \E p \in SlotPool :
          /\ Cardinality(DOMAIN parts \cup {SlotOf(p.category)}) <= MaxSlots
          /\ add(p)
    /\ prev' = last
    /\ UNCHANGED <<normVars, catalogVars, storeVars, priceVars, appVars, resetVars>>

RemoveSlot ==
    /\ \E c \in RemoveArgs : remove(c)
    /\ prev' = last
    /\ UNCHANGED <<normVars, catalogVars, storeVars, priceVars, appVars, resetVars>>

\* The engine fed with attributed parts.
AddCompatPart ==
    /\ \E p \in CompatPool :
          /\ Cardinality(DOMAIN parts \cup {SlotOf(p.category)}) <= MaxSel
          /\ add(p)
    /\ UNCHANGED <<prev, normVars, catalogVars, storeVars, priceVars, appVars, resetVars>>

CallEstimatedPower == EstimatedPower /\ UNCHANGED <<prev, normVars, catalogVars, storeVars, priceVars, appVars, resetVars>>

CallCompatibilityIssues == CompatibilityIssues /\ UNCHANGED <<prev, normVars, catalogVars, storeVars, priceVars, appVars, resetVars>>

\* The engine fed with parts for whole builds.
AddBuildPart ==
    /\ \E p \in BuildPool : add(p)
    /\ UNCHANGED <<prev, normVars, catalogVars, storeVars, priceVars, appVars, resetVars>>

CallAssemblySteps == AssemblySteps /\ UNCHANGED <<prev, normVars, catalogVars, storeVars, priceVars, appVars, resetVars>>

\* The engine of a session fed with the parts of HistoryPool.
AddStorePart ==
    /\ \E p \in HistoryPool : add(p)
    /\ UNCHANGED <<prev, normVars, catalogVars, storeVars, priceVars, appVars, resetVars>>

RemoveStoreSlot ==
    /\ \E c \in {CPU, PlacaMae} : remove(c)
    /\ UNCHANGED <<prev, normVars, catalogVars, storeVars, priceVars, appVars, resetVars>>

CallSaveBuild == SaveBuild /\ UNCHANGED <<prev, normVars, catalogVars, priceVars, appVars, resetVars>>

CallShowMyBuilds == ShowMyBuilds /\ UNCHANGED <<prev, normVars, catalogVars, priceVars, appVars, resetVars>>

CallLogin == Login /\ UNCHANGED <<prev, normVars, catalogVars, priceVars, appVars, resetVars>>

\* The steps of the application: its three kinds of thread.
RunSampleThread ==
    /\ SampleThreadReplace \/ SampleThreadAdd
    /\ UNCHANGED <<normVars, engineVars, historyVars, storeVars, priceVars, resetVars>>

UiLoadCsv ==
    /\ \E records \in Batches :
          /\ CatalogSize + Len(records) <= MaxCatalog
          /\ LoadFile("load_csv", records)
    /\ UNCHANGED <<loader, workers, after_queue>>
    /\ UNCHANGED <<normVars, engineVars, historyVars, storeVars, priceVars, resetVars>>

UiLoadJson ==
    /\ \E records \in Batches :
          /\ CatalogSize + Len(records) <= MaxCatalog
          /\ LoadFile("load_json", records)
    /\ UNCHANGED <<loader, workers, after_queue>>
    /\ UNCHANGED <<normVars, engineVars, historyVars, storeVars, priceVars, resetVars>>

UiRunScraper ==
    /\ Len(workers) + Len(after_queue) < MaxWorkers
    /\ \E page \in Batches : RunScraper(page)
    /\ UNCHANGED <<loader, normVars, engineVars, historyVars, storeVars, priceVars, resetVars>>

RunWorker ==
    /\ \E w \in 1..Len(workers) : Worker(w)
    /\ UNCHANGED <<loader, normVars, engineVars, historyVars, storeVars, priceVars, resetVars>>

UiHandleScraper ==
    /\ after_queue # <<>>
    /\ CatalogSize + Len(Head(after_queue).parts) <= MaxCatalog
    /\ HandleScraper
    /\ UNCHANGED <<loader, normVars, engineVars, historyVars, storeVars, priceVars, resetVars>>

UiOnAddPart ==
    /\ OnAddPart
    /\ UNCHANGED <<loader, workers, after_queue>>
    /\ UNCHANGED <<catalogVars, normVars, historyVars, storeVars, priceVars, resetVars>>

UiOnRemove ==
    /\ OnRemove
    /\ UNCHANGED <<loader, workers, after_queue>>
    /\ UNCHANGED <<catalogVars, normVars, historyVars, storeVars, priceVars, resetVars>>

CallLoadCsvRow ==
    /\ \E row \in CsvRows : LoadCsvRow(row)
    /\ UNCHANGED <<prev, normVars, storeVars, priceVars, appVars, resetVars>>

\* The steps of the password reset: names, tokens and passwords typed, and
\* the time that passed before the token was entered.
CallResetAskWho ==
    /\ \E who \in {"", "ana", "bia", "a@x", "eva"} : ResetAskWho(who)
    /\ UNCHANGED <<normVars, catalogVars, engineVars, historyVars, build_history, app_user,
                   priceVars, appVars>>

CallResetEnterToken ==
    /\ \E tok \in 0..MaxTokens + 1,
          clock \in {now, now + 1, now + TtlHalves, now + TtlHalves + 1} :
          /\ clock <= MaxTokens * (TtlHalves + 1)
          /\ ResetEnterToken(tok, clock)
    /\ UNCHANGED <<normVars, catalogVars, engineVars, historyVars, build_history, app_user,
                   priceVars, appVars>>

CallResetEnterPassword ==
    /\ \E newpwd \in {<<>>, <<"1", "2", "3", "4", "5">>, <<"s", "e", "c", "r", "e", "t">>} :
          ResetEnterPassword(newpwd)
    /\ UNCHANGED <<normVars, catalogVars, engineVars, historyVars, build_history, app_user,
                   priceVars, appVars>>

CallParsePrice ==
    ParsePrice /\ UNCHANGED <<normVars, catalogVars, engineVars, historyVars, storeVars, appVars, resetVars>>

CallNormalize == Normalize /\ UNCHANGED <<catalogVars, engineVars, historyVars, storeVars, priceVars, appVars, resetVars>>

CallNormalizeAgain == NormalizeAgain /\ UNCHANGED <<catalogVars, engineVars, historyVars, storeVars, priceVars, appVars, resetVars>>

CallAddPart == AddPart /\ UNCHANGED <<normVars, engineVars, historyVars, storeVars, priceVars, appVars, resetVars>>

HistoryInit == prev = [op |-> "init", arg |-> NoValue]

\* The table after init_db on a new file.
StoreEmpty ==
    /\ build_history = <<>>
    /\ now = 0

StoreIdle == StoreEmpty /\ app_user = 1

\* The application after PCXApp.__init__: the sample thread is started.
AppInit ==
    /\ loader = 0
    /\ workers = <<>>
    /\ after_queue = <<>>
    /\ ran = Ran("ui", "__init__", FALSE)

PriceIdle ==
    /\ price_arg = <<>>
    /\ price_res = <<>>

\* The login window with two registered users and no token issued.
ResetIdle ==
    /\ reset_tokens = <<>>
    /\ password = [u \in Users |-> <<"o", "l", "d", "p", "w", "d">>]
    /\ reset_dialog = Dialog("idle", 0, NoValue)

InitNorm == NormInit /\ CatalogInit /\ EngineInit /\ HistoryInit /\ StoreIdle /\ PriceIdle /\ AppInit /\ ResetIdle

Init == NormIdle /\ CatalogInit /\ EngineInit /\ HistoryInit /\ StoreIdle /\ PriceIdle /\ AppInit /\ ResetIdle

InitPrice ==
    /\ NormIdle /\ CatalogInit /\ EngineInit /\ HistoryInit /\ StoreIdle /\ AppInit
    /\ ResetIdle
    /\ PriceInit

\* A session of any of the users on a new database.
InitStore ==
    /\ NormIdle /\ CatalogInit /\ EngineInit /\ HistoryInit /\ PriceIdle /\ AppInit /\ ResetIdle
    /\ StoreEmpty
    /\ app_user \in Users

\* A session on a database file that holds rows already.
InitStored ==
    /\ NormIdle /\ CatalogInit /\ EngineInit /\ HistoryInit /\ PriceIdle /\ AppInit /\ ResetIdle
    /\ \E n \in 0..MaxBuilds : build_history \in StoredRows(n)
    /\ now = 0
    /\ app_user \in Users

NextNorm == CallNormalize \/ CallNormalizeAgain

NextCatalog == CallAddPart

NextSlots == AddSlotPart \/ RemoveSlot

Next == AddCompatPart \/ CallEstimatedPower \/ CallCompatibilityIssues

NextBuild == AddBuildPart \/ CallCompatibilityIssues \/ CallAssemblySteps

NextStore ==
    AddStorePart \/ RemoveStoreSlot \/ CallSaveBuild \/ CallShowMyBuilds \/ CallLogin

NextPrice == CallParsePrice

NextStored == CallShowMyBuilds \/ CallLogin

NextCsv == CallLoadCsvRow

NextReset == CallResetAskWho \/ CallResetEnterToken \/ CallResetEnterPassword

NextLoads == UiLoadCsv \/ UiLoadJson \/ UiRunScraper \/ RunWorker \/ UiHandleScraper

NextApp == RunSampleThread \/ NextLoads \/ UiOnAddPart \/ UiOnRemove

\* Category normalisation applied to a label, then to its own result.
SpecNorm == InitNorm /\ [][NextNorm]_vars

\* The catalog filled by add_part.
SpecCatalog == Init /\ [][NextCatalog]_vars

\* Slot selection: add and remove with labelled parts.
SpecSlots == Init /\ [][NextSlots]_vars

\* Selection of attributed parts, power estimate and compatibility rules.
Spec == Init /\ [][Next]_vars

\* Whole builds: selection, compatibility rules and assembly guide.
SpecBuild == Init /\ [][NextBuild]_vars

\* Sessions that select parts, save builds and list the saved builds.
SpecStore == InitStore /\ [][NextStore]_vars

\* Sessions that list the builds of a database file found on disk.
SpecStored == InitStored /\ [][NextStored]_vars

\* A catalog filled from the rows of a CSV file.
SpecCsv == Init /\ [][NextCsv]_vars

\* Password resets by token at the login window.
SpecReset == Init /\ [][NextReset]_vars

\* The price parser applied to a text.
SpecPrice == InitPrice /\ [][NextPrice]_vars

\* The running application: the sample thread, the UI thread's handlers and
\* the scraper threads, interleaved.
SpecApp == Init /\ [][NextApp]_vars

\* File loads and scraper imports alone.
SpecLoads == Init /\ [][NextLoads]_vars

-----------------------------------------------------------------------------
(* Properties. *)

\* The keys of the selection that cat_map folds into slot c.
KeysOfSlot(c) == {k \in DOMAIN parts : SlotOf(k) = c}

\* C1: after add(p1) followed by add(p2), with p1 # p2 and both categories
\* mapped by cat_map to the same slot, the selection has exactly one
\* occupant for that slot, it is p2, and p1 is in no slot.
C1_SlotReplacement ==
    (/\ prev.op = "add"
     /\ last.op = "add"
     /\ prev.arg # last.arg
     /\ SlotOf(prev.arg.category) = SlotOf(last.arg.category))
    => LET c == SlotOf(last.arg.category)
       IN  /\ KeysOfSlot(c) = {c}
           /\ parts[c] = last.arg
           /\ \A k \in DOMAIN parts : parts[k] # prev.arg

\* C1 case: a part labelled 'Motherboard' was added, then one labelled
\* 'Placa-mãe'.
C1_Witness ==
    /\ prev.op = "add"
    /\ last.op = "add"
    /\ prev.arg.category = Motherboard
    /\ last.arg.category = PlacaMae
    /\ PlacaMae \in DOMAIN parts

\* C2: every Part listed in a by_cat sequence is the Part by_id returns for
\* its id, and every Part in by_id is listed in by_cat under its category.
C2_IndexesAgree ==
    /\ \A c \in DOMAIN by_cat : \A i \in 1..Len(by_cat[c]) :
          /\ by_cat[c][i].id \in DOMAIN by_id
          /\ by_id[by_cat[c][i].id] = by_cat[c][i]
    /\ \A id \in DOMAIN by_id :
          /\ by_id[id].category \in DOMAIN by_cat
          /\ by_id[id] \in Range(by_cat[by_id[id].category])

\* C3 as stated: every key of BuildEngine.parts is one of the eight
\* canonical slot names.
C3_OnlyCanonicalKeys == \A k \in DOMAIN parts : k \in CanonicalNames

\* C3 amended: every key of BuildEngine.parts is one of the eight canonical
\* slot names or a category label that cat_map does not list; the Part
\* under a key is one whose category cat_map maps to that key.
C3_KeysCanonicalOrUnlisted ==
    \A k \in DOMAIN parts :
        /\ k \in CanonicalNames \/ k \notin DOMAIN cat_map
        /\ SlotOf(parts[k].category) = k

\* C3 case: a part with an alias label sits under its canonical key next
\* to a part whose label cat_map does not list.
C3_Witness ==
    /\ Monitor \in DOMAIN parts
    /\ Fonte \in DOMAIN parts
    /\ parts[Fonte].category = PSU

\* C4: normalising the result of a normalisation returns it unchanged, and
\* each canonical name is returned unchanged.
C4_Idempotent ==
    /\ Len(norm_res) = 2 => norm_res[2] = norm_res[1]
    /\ (Len(norm_res) >= 1 /\ norm_arg \in CanonicalNames) => norm_res[1] = norm_arg

\* C4 case: a padded upper-case synonym was normalised twice.
C4_Witness ==
    /\ Len(norm_res) = 2
    /\ norm_arg = <<" ">> \o Upper(s_motherboard) \o <<" ">>
    /\ norm_res[1] # norm_arg

\* C5: every synonym of the specification's table, in any letter case and
\* with any surrounding whitespace, is normalised to the canonical category
\* of its row.
C5_SynonymsFold ==
    \A row \in SynonymTable :
        (Len(norm_res) >= 1 /\ norm_arg \in Variants(row[1])) => norm_res[1] = row[2]

\* The parts' draw in half watts as the specification describes it: per occupied
\* slot the TDP the part states, 0 when it states none that is a number.
RECURSIVE StatedDraw(_)
StatedDraw(keys) ==
    IF keys = {} THEN 0
    ELSE LET k == CHOOSE x \in keys : TRUE
             v == TdpProbe(parts[k])
         IN  (IF ToFloat(v).ok THEN ToFloat(v).h ELSE 0) + StatedDraw(keys \ {k})

\* The slots whose part states a TDP of w watts.
SlotsDrawing(w) ==
    {k \in DOMAIN parts : TdpProbe(parts[k]) = Num(2 * w)}

\* C6: estimated_power returns (consumed, recommended): consumed is the sum
\* of the slots' numeric TDP plus 50 (as an integer, fraction dropped) and
\* recommended is ceil(1.3 * (sum + 50)); the empty selection gives
\* (50, 65); slots with TDP 65 and 170 and no others give (285, 371).
C6_PowerFormula ==
    last.op = "estimated_power" =>
        LET total2 == StatedDraw(DOMAIN parts) + 100
            consumed == ret.value[1]
            recommended == ret.value[2]
        IN  /\ ~ret.raised
            /\ 2 * consumed <= total2
            /\ total2 < 2 * (consumed + 1)
            /\ 20 * (recommended - 1) < 13 * total2
            /\ 13 * total2 <= 20 * recommended
            /\ parts = EmptyMap => ret.value = <<50, 65>>
            /\ (/\ Cardinality(SlotsDrawing(65)) = 1
                /\ Cardinality(SlotsDrawing(170)) = 1
                /\ StatedDraw(DOMAIN parts) = 2 * (65 + 170))
               => ret.value = <<285, 371>>

\* C6 case: the estimate was computed for a selection of a 65 W part and a
\* 170 W part.
C6_Witness ==
    /\ last.op = "estimated_power"
    /\ Cardinality(SlotsDrawing(65)) = 1
    /\ Cardinality(SlotsDrawing(170)) = 1
    /\ StatedDraw(DOMAIN parts) = 2 * (65 + 170)

\* The wattage the supply states, as read through its two keys.
StatedWattage == PyOr(Get(parts[Fonte].attributes, "watt"), Get(parts[Fonte].attributes, "power_w"))

HasIssue(rule) == \E i \in 1..Len(ret.issues) : ret.issues[i].rule = rule

\* C7: for a selection with a PSU of integer wattage, compatibility_issues
\* contains no PSU-insufficiency issue when the wattage equals the
\* recommended value and contains one when it is one watt below it.
C7_PsuBoundary ==
    (/\ last.op = "compatibility_issues"
     /\ Fonte \in DOMAIN parts
     /\ StatedWattage.t = "num"
     /\ StatedWattage.h % 2 = 0)
    => LET watt == StatedWattage.h \div 2
           rec == estimated_power(parts)[2]
       IN  /\ watt = rec => ~HasIssue("psu")
           /\ watt = rec - 1 => HasIssue("psu")

\* The socket a part states, under either key.
StatedSocket(p) ==
    IF "soquete" \in DOMAIN p.attributes THEN p.attributes["soquete"]
    ELSE Get(p.attributes, "socket")

IsText(v) == v.t = "str" /\ Len(v.s) > 0

\* C8: with only CPU and Motherboard selected, both stating a socket (a
\* non-empty string) and no BIOS note, compatibility_issues returns exactly
\* one issue naming both sockets when they differ, and none when they are
\* equal.
C8_SocketOnly ==
    (/\ last.op = "compatibility_issues"
     /\ DOMAIN parts = {CPU, PlacaMae}
     /\ IsText(StatedSocket(parts[CPU]))
     /\ IsText(StatedSocket(parts[PlacaMae]))
     /\ {"required_bios", "bios_note"} \cap DOMAIN parts[CPU].attributes = {})
    => LET cs == StatedSocket(parts[CPU])
           ms == StatedSocket(parts[PlacaMae])
       IN  /\ ~ret.raised
           /\ cs # ms => ret.issues = <<Issue("socket", cs, ms)>>
           /\ cs = ms => ret.issues = <<>>

\* C8 case: the rules ran on an AM4 CPU with an LGA1700 motherboard.
C8_Witness ==
    /\ last.op = "compatibility_issues"
    /\ DOMAIN parts = {CPU, PlacaMae}
    /\ StatedSocket(parts[CPU]) = Str(AM4)
    /\ StatedSocket(parts[PlacaMae]) = Str(LGA1700)
    /\ {"required_bios", "bios_note"} \cap DOMAIN parts[CPU].attributes = {}

\* The part in slot key is missing, or states none of the given keys.
Lacks(key, names) ==
    \/ key \notin DOMAIN parts
    \/ names \cap DOMAIN parts[key].attributes = {}

\* One side of the comparison a rule makes is missing.
SideMissing(rule) ==
    CASE rule = "socket" ->
           Lacks(CPU, {"soquete", "socket"}) \/ Lacks(PlacaMae, {"soquete", "socket"})
      [] rule = "memory" ->
           Lacks(RAM, {"tipo", "mem_type", "type"}) \/ Lacks(PlacaMae, {"mem_type", "ram_type"})
      [] rule = "gpu" ->
           \/ Lacks(GPU, {"comprimento_mm", "length_mm"})
           \/ Lacks(Gabinete, {"gpu_max_mm", "max_gpu_length_mm"})
      [] rule = "cooler" ->
           \/ Lacks(Cooler, {"height_mm", "altura_mm"})
           \/ Lacks(Gabinete, {"cooler_clearance_mm", "max_cooler_height_mm"})
      [] rule = "psu" -> Lacks(Fonte, {"watt", "power_w"})

ComparisonRules == {"socket", "memory", "gpu", "cooler", "psu"}

\* C9: a comparison rule adds no issue when one of the slots it compares is
\* empty or one of the attributes it compares is absent.
C9_MissingSideSkips ==
    last.op = "compatibility_issues" =>
        \A rule \in ComparisonRules : SideMissing(rule) => ~HasIssue(rule)

\* C9 case: the rules ran on a selection in which some rules have both
\* sides and report, while the supply states no wattage.
C9_Witness ==
    /\ last.op = "compatibility_issues"
    /\ HasIssue("socket")
    /\ Fonte \in DOMAIN parts
    /\ SideMissing("psu")
    /\ SideMissing("memory")

\* C10: compatibility_issues and estimated_power return a result and never
\* raise, whatever the types of the attribute values.
C10_NeverRaises ==
    last.op \in {"compatibility_issues", "estimated_power"} => ~ret.raised

\* The CPU of the selection states a BIOS note under one of the two keys.
CpuStatesBios ==
    /\ CPU \in DOMAIN parts
    /\ \E k \in {"required_bios", "bios_note"} :
          /\ k \in DOMAIN parts[CPU].attributes
          /\ IsText(parts[CPU].attributes[k])

\* C11: whenever the selected CPU carries a non-empty required_bios or
\* bios_note, the result of compatibility_issues contains the BIOS advisory,
\* whatever the other slots hold, a missing Motherboard included.
C11_BiosAdvisory ==
    (last.op = "compatibility_issues" /\ CpuStatesBios)
    => (~ret.raised /\ HasIssue("bios"))

\* The place of a rule in the order the rules are evaluated.
RuleRank(rule) ==
    CASE rule = "socket" -> 1
      [] rule = "bios"   -> 2
      [] rule = "memory" -> 3
      [] rule = "gpu"    -> 4
      [] rule = "cooler" -> 5
      [] rule = "psu"    -> 6

\* C12: the issues compatibility_issues returns appear in the rule order
\* socket, BIOS, memory type, GPU clearance, cooler clearance, PSU; no rule
\* contributes twice, so there are at most six.
C12_RuleOrder ==
    (last.op = "compatibility_issues" /\ ~ret.raised)
    => /\ \A i, j \in 1..Len(ret.issues) :
              i < j => RuleRank(ret.issues[i].rule) < RuleRank(ret.issues[j].rule)
       /\ Len(ret.issues) <= 6

\* C12 case: the rules ran on a build that trips all six.
C12_Witness ==
    /\ last.op = "compatibility_issues"
    /\ ~ret.raised
    /\ Len(ret.issues) = 6

\* The slots of a build of motherboard, CPU, RAM, PSU, case and GPU.
SixSlots == {PlacaMae, CPU, RAM, Fonte, Gabinete, GPU}

\* C13: for a selection of exactly Motherboard, CPU, RAM, PSU, Case and GPU
\* with no compatibility issue, assembly_steps returns exactly the tooling
\* line, the motherboard-preparation line, the CPU line, the RAM line, the
\* PSU line, the motherboard-mounting line, the GPU line, the front-panel
\* line and the peripherals line, with no warning block.
C13_AssemblyOrder ==
    (/\ last.op = "assembly_steps"
     /\ DOMAIN parts = SixSlots
     /\ compatibility_issues(parts) = Returned(<<>>))
    => /\ ~ret.raised
       /\ ret.steps = <<Step("tools"), Step("mb_prep"), Step("cpu"), Step("ram"),
                        Step("psu"), Step("mb_mount"), Step("gpu"),
                        Step("front_panel"), Step("peripherals")>>

\* C13 case: the guide was produced for such a build free of issues.
C13_Witness ==
    /\ last.op = "assembly_steps"
    /\ DOMAIN parts = SixSlots
    /\ compatibility_issues(parts) = Returned(<<>>)
    /\ Len(ret.steps) = 9

\* The lines of the guide that belong to a warning block.
WarningLines == {i \in 1..Len(ret.steps) : ret.steps[i].kind \in {"warning", "issue"}}

\* C14: when compatibility_issues() is non-empty, assembly_steps() starts
\* with one warning header, then one line per issue in the order of
\* compatibility_issues(), then the tooling line; when it is empty, the
\* first line is the tooling line and no warning line appears.
C14_WarningBlock ==
    (last.op = "assembly_steps" /\ ~compatibility_issues(parts).raised)
    => LET issues == compatibility_issues(parts).issues
           n == Len(issues)
       IN  /\ ~ret.raised
           /\ n > 0 =>
                /\ Len(ret.steps) >= n + 2
                /\ ret.steps[1] = Step("warning")
                /\ \A i \in 1..n : ret.steps[i + 1] = IssueLine(issues[i])
                /\ ret.steps[n + 2] = Step("tools")
                /\ WarningLines = 1..(n + 1)
           /\ n = 0 =>
                /\ ret.steps[1] = Step("tools")
                /\ WarningLines = {}

\* C14 case: the guide was produced for a build with three issues or more.
C14_Witness ==
    /\ last.op = "assembly_steps"
    /\ ~ret.raised
    /\ Len(ret.steps) >= 4
    /\ ret.steps[4].kind = "issue"

\* C15: remove(category) on an occupied slot empties that slot and leaves
\* every other slot as it was; on a category that is not occupied it leaves
\* the whole selection as it was and returns without error.
C15_RemoveFrame ==
    [][last'.op = "remove" =>
         LET category == last'.arg
         IN  /\ ret' = NoValue
             /\ IF category \in DOMAIN parts
                THEN /\ DOMAIN parts' = DOMAIN parts \ {category}
                     /\ \A k \in DOMAIN parts' : parts'[k] = parts[k]
                ELSE parts' = parts]_vars

\* C15 case: a slot was filled and then removed while another slot stays
\* occupied.
C15_Witness ==
    /\ prev.op = "add"
    /\ last.op = "remove"
    /\ SlotOf(prev.arg.category) = last.arg
    /\ last.arg \notin DOMAIN parts
    /\ DOMAIN parts # {}

\* The entry of a loaded bill of materials states the id, the name and the
\* price of part p.
EntryStates(e, p) ==
    /\ e.t = "obj"
    /\ {s_id, s_name, s_price} \subseteq DOMAIN e.m
    /\ e.m[s_id] = Str(p.id)
    /\ e.m[s_name] = Str(p.name)
    /\ e.m[s_price] = Num(p.price)

\* C16: bom() has exactly one entry per occupied slot, keyed by the slot's
\* key, carrying the id, name, price and attributes of the Part in that
\* slot; once it is saved with save_build_history, every list that
\* get_user_builds returns for the user holds the saved build with the same
\* category keys, ids, names and prices.
C16_BomRoundTrip ==
    (last.op = "save_build" /\ parts # EmptyMap)
    => /\ DOMAIN bom(parts) = DOMAIN parts
       /\ \A cat \in DOMAIN parts :
             bom(parts)[cat] = [id |-> parts[cat].id, name |-> parts[cat].name,
                                price |-> parts[cat].price,
                                attributes |-> parts[cat].attributes]
       /\ \A builds \in get_user_builds(build_history, app_user) :
             \E i \in 1..Len(builds) :
                /\ builds[i].id = Len(build_history)
                /\ builds[i].bom.t = "obj"
                /\ DOMAIN builds[i].bom.m = DOMAIN parts
                /\ \A cat \in DOMAIN parts : EntryStates(builds[i].bom.m[cat], parts[cat])

\* C16 case: a build of two parts, one of them with a quote in its name and
\* a fractional price, was saved after an earlier build.
C16_Witness ==
    /\ last.op = "save_build"
    /\ DOMAIN parts = {CPU, PlacaMae}
    /\ parts[CPU].price = 2469
    /\ Len(build_history) = 2
    /\ build_history[2].user_id = app_user

\* The half second a created_at text stands for.
FromIso(text) ==
    2 * DecimalValue(SubSeq(text, 1, 2)) + (IF Len(text) > 2 THEN 1 ELSE 0)

\* C20: get_user_builds(u) returns exactly the entries saved for user u,
\* each once and none of another user, ordered newest first by creation
\* time; and no step removes or rewrites a saved entry.
C20_UserHistory ==
    /\ [](last.op = "get_user_builds" =>
            /\ {ret.value[i].id : i \in 1..Len(ret.value)}
                 = {r.id : r \in {x \in Range(build_history) : x.user_id = last.arg}}
            /\ \A i, j \in 1..Len(ret.value) :
                  i < j => /\ ret.value[i].id # ret.value[j].id
                           /\ FromIso(ret.value[i].created_at)
                                >= FromIso(ret.value[j].created_at))
    /\ [][\A i \in 1..Len(build_history) :
            Len(build_history') >= i /\ build_history'[i] = build_history[i]]_vars

\* C20 case: a user's list of two builds saved at different times was
\* read.
C20_Witness ==
    /\ last.op = "get_user_builds"
    /\ Len(ret.value) = 2
    /\ ret.value[1].created_at # ret.value[2].created_at

\* C17: _parse_price_brl returns a number and never raises, for every text:
\* the empty text, texts without a digit, texts of one or two characters
\* holding one comma or one period; a text without a digit yields 0.0.
C17_ParseNeverRaises ==
    price_res # <<>> =>
        /\ ~price_res[1].raised
        /\ price_res[1].value.t = "dec"
        /\ (price_arg = NoValue \/ SelectSeq(price_arg.s, IsDigit) = <<>>)
              => price_res[1].value = Dec(0, 0)

\* C18: every mutation of the Catalog (replacing it, add_part) and of the
\* BuildEngine selection is performed by the UI thread; neither the sample
\* thread nor a scraper worker mutates that state.
C18_UiThreadOwns ==
    [][(by_cat' # by_cat \/ by_id' # by_id \/ parts' # parts
        \/ (ran' # ran /\ ran'.op \in {"Catalog", "add_part"}))
       => ran'.thread = "ui"]_vars

\* The steps of a load or an import that fails.
FailedLoad(step) ==
    /\ step.failed
    /\ step.op \in {"load_csv", "load_json", "worker", "_handle_scraper_error"}

\* C19: a CSV load, a JSON load or a scraper import that fails part-way
\* leaves the application's Catalog with exactly the parts it had: no
\* step of the failed operation adds a part of its batch.
C19_FailedLoadKeepsCatalog ==
    [][(ran' # ran /\ FailedLoad(ran')) => (by_cat' = by_cat /\ by_id' = by_id)]_vars

\* C19 case: a load failed on a file whose first record is readable.
C19_Witness ==
    /\ ran.op \in {"load_csv", "load_json"}
    /\ ran.failed
    /\ by_cat # EmptyMap

\* The value the error marker is stated to carry.
InvalidData == <<"i", "n", "v", "a", "l", "i", "d", " ", "d", "a", "t", "a">>

\* C21: when a stored payload is not valid JSON, get_user_builds does not
\* raise; it returns an entry for that row whose bom is the error marker
\* {error: "invalid data"}, and every other row of the user is returned with
\* its loaded bill of materials.
C21_CorruptPayloadReported ==
    last.op = "get_user_builds"
    => /\ ~ret.raised
       /\ \A i \in Selected(build_history, last.arg) :
             \E k \in 1..Len(ret.value) :
                /\ ret.value[k].id = i
                /\ ret.value[k].bom =
                      (IF Decodable(build_history[i].bom_json)
                             /\ json_loads(build_history[i].bom_json).ok
                       THEN json_loads(build_history[i].bom_json).val
                       ELSE Obj(s_error :> Str(InvalidData)))

\* The price text "R$ 1.234,56".
BrazilianPrice == Str(<<"R", "$", " ", "1", ".", "2", "3", "4", ",", "5", "6">>)

\* C22: Catalog.load_csv gives each Part the price that _parse_price_brl
\* reads in the row's price cell: the cell "R$ 1.234,56" is ingested as
\* 1234.56, not as 0.0.
C22_CsvPriceParsed ==
    last.op = "load_csv"
    => LET cell == last.arg.price
           p == by_id[last.arg.id.s]
       IN  /\ cell = BrazilianPrice => p.price = Dec(123456, 2)
           /\ ~_parse_price_brl(cell).raised => p.price = _parse_price_brl(cell).value

\* The guide holds a line of the kind; a call that raised gave no guide.
HasStep(kind) == \E i \in 1..Len(ret.steps) : ret.steps[i].kind = kind

\* C23: for every selection, assembly_steps() holds at most one of the M.2
\* line and the SATA line; the SATA line appears exactly when Storage is
\* selected with form_factor '2.5', '3.5' or 'sata' in any letter case,
\* with or without a Motherboard; the M.2 line appears exactly when
\* Motherboard and Storage are selected and the form_factor is 'm.2'.
C23_StorageLines ==
    last.op = "assembly_steps"
    => LET storage == Armazenamento \in DOMAIN parts
           ff == IF storage THEN FormFactor(parts[Armazenamento]) ELSE <<>>
       IN  /\ ~(HasStep("m2") /\ HasStep("sata"))
           /\ HasStep("sata") <=> (storage /\ ff \in {s_25, s_35, s_sata})
           /\ HasStep("m2") <=> (PlacaMae \in DOMAIN parts /\ storage /\ ff = s_m2)

\* The value under the first of the keys tdp_w, tdp that the part has.
FirstPresentTdp(p) ==
    IF "tdp_w" \in DOMAIN p.attributes THEN p.attributes["tdp_w"]
    ELSE IF "tdp" \in DOMAIN p.attributes THEN p.attributes["tdp"]
    ELSE Num(0)

RECURSIVE PresentDraw(_)
\* The draw of the slots in half watts when each part contributes the
\* number under its first present key, 0 when that is no number.
PresentDraw(keys) ==
    IF keys = {} THEN 0
    ELSE LET k == CHOOSE x \in keys : TRUE
             v == FirstPresentTdp(parts[k])
         IN  (IF ToFloat(v).ok THEN ToFloat(v).h ELSE 0) + PresentDraw(keys \ {k})

\* C24: the TDP probe of estimated_power uses the value under tdp_w whenever
\* the part has the key tdp_w, also when that value is 0, and the value
\* under tdp only when tdp_w is absent: a part with tdp_w = 0 and tdp = 100
\* contributes 0 to consumed.
C24_FirstPresentKey ==
    last.op = "estimated_power"
    => ret.value[1] = TruncHalves(PresentDraw(DOMAIN parts) + 2 * baseline)

\* The value under the first of two alias keys that the part has.
StatedSize(p, key, alias) ==
    IF key \in DOMAIN p.attributes THEN p.attributes[key]
    ELSE IF alias \in DOMAIN p.attributes THEN p.attributes[alias]
    ELSE NoValue

\* The rule of the kind reports exactly when both sizes are numbers and the
\* first is strictly greater; a size that is no number gives no issue.
ReportsExactly(rule, size, limit) ==
    IF ToFloat(size).ok /\ ToFloat(limit).ok
    THEN HasIssue(rule) <=> ToFloat(size).h > ToFloat(limit).h
    ELSE ~HasIssue(rule)

\* C25: with GPU and Case selected and both lengths numeric,
\* compatibility_issues holds a GPU-clearance issue exactly when the GPU
\* length is strictly greater than the case's maximum GPU length; a
\* non-numeric value skips the check with no issue and no error.  The
\* cooler-height rule behaves the same way against the case's clearance.
C25_ClearanceRules ==
    last.op = "compatibility_issues"
    => /\ (GPU \in DOMAIN parts /\ Gabinete \in DOMAIN parts)
          => ReportsExactly("gpu",
                            StatedSize(parts[GPU], "comprimento_mm", "length_mm"),
                            StatedSize(parts[Gabinete], "gpu_max_mm", "max_gpu_length_mm"))
       /\ (Cooler \in DOMAIN parts /\ Gabinete \in DOMAIN parts)
          => ReportsExactly("cooler",
                            StatedSize(parts[Cooler], "height_mm", "altura_mm"),
                            StatedSize(parts[Gabinete], "cooler_clearance_mm",
                                       "max_cooler_height_mm"))

\* The rows of the token.
RowsOf(rows, tok) == {i \in 1..Len(rows) : rows[i].token = tok}

\* C26: a reset token is single-use and validate_reset_token returns a user
\* id only for a token that request_password_reset issued for that user,
\* that is not marked used and has not expired.  No step removes a token's
\* row or clears its used flag; a row is inserted unused and expires
\* RESET_TOKEN_TTL_MIN minutes after its request; and whenever on_reset_email
\* gets a user id from validate_reset_token, the token typed has a row of
\* that user that is unused and not past its expiry.  So once a token was
\* marked used, it is rejected in every later state.
C26_SingleUseToken ==
    /\ [][\A i \in 1..Len(reset_tokens) :
            /\ Len(reset_tokens') >= i
            /\ reset_tokens'[i].token = reset_tokens[i].token
            /\ reset_tokens'[i].user_id = reset_tokens[i].user_id
            /\ reset_tokens[i].used # 0 => reset_tokens'[i].used # 0]_vars
    /\ [][Len(reset_tokens') > Len(reset_tokens)
            => LET row == reset_tokens'[Len(reset_tokens')]
               IN  /\ row.used = 0
                   /\ RowsOf(reset_tokens, row.token) = {}
                   /\ fromisoformat(row.expires_at) = [ok |-> TRUE, clock |-> now + TtlHalves]]_vars
    /\ [][(reset_dialog.at = "token" /\ reset_dialog'.at = "newpwd")
            => \E i \in RowsOf(reset_tokens, reset_dialog'.tok) :
                  /\ reset_dialog'.uid = Num(2 * reset_tokens[i].user_id)
                  /\ reset_tokens[i].used = 0
                  /\ now' <= fromisoformat(reset_tokens[i].expires_at).clock]_vars
    /\ [][(reset_dialog.at = "token"
            /\ \E i \in RowsOf(reset_tokens, reset_dialog'.tok) : reset_tokens[i].used # 0)
            => reset_dialog'.at # "newpwd"]_vars

\* C26 case: a token that had changed a password was typed again before
\* its expiry and rejected.
C26_Witness ==
    /\ reset_dialog.at = "invalid"
    /\ \E i \in RowsOf(reset_tokens, reset_dialog.tok) :
          /\ reset_tokens[i].used # 0
          /\ now <= fromisoformat(reset_tokens[i].expires_at).clock
          /\ password[reset_tokens[i].user_id] = <<"s", "e", "c", "r", "e", "t">>

\* C27: under every interleaving of the sample-catalog thread with the UI
\* thread, a part that a CSV load, a JSON load or a scraper import added to
\* the application's catalog stays findable by its id in every later state:
\* the catalog is never replaced or emptied after a part was added to it.
C27_LoadedPartsStay ==
    [][\A p \in AppPool : p.id \in DOMAIN by_id => p.id \in DOMAIN by_id']_vars

====
